---- MODULE Spec2Model ----
(***************************************************************************)
(* Eurydice: lexer tokens, the Pratt parser (src/src/parse.ts) and the     *)
(* explicit-stack, continuation-passing evaluator (evaluate.ts, the        *)
(* snapshot in src/unnamed/part_002 lines 234-808).                        *)
(*                                                                         *)
(* A source text is modelled as the sequence of its lexemes, written with  *)
(* exactly one blank between two lexemes; the lexer turns it into tokens.  *)
(***************************************************************************)
EXTENDS Integers, Sequences, FiniteSets, TLC

VARIABLES
    input,          \* the source text handed to parse(): a sequence of lexemes
    parsed,         \* what parse() gave: [st, node, pos, msg]
    phase,          \* "ready" | "parsed" | "parse_error" | "running" |
                    \* "returned" | "thrown"
    next,           \* evaluate(): the pending StackFrame, or Null
    continuations,  \* evaluate(): the continuation stack (last = top)
    envs,           \* the Environment objects allocated so far (a heap)
    finalResult,    \* evaluate(): finalResult, Undefined until assigned
    finalCalls,     \* how often the initial continuation has been invoked
    currentExpr,    \* evaluate(): currentExpr
    allocated,      \* how many function objects evaluation has created
    thrown,         \* message of the EvaluationError, "" if none
    seqI,           \* the counter of the test suite's seq() binding
    emptyEnv,       \* the module's EMPTY_ENV object: its properties
    run,            \* which evaluate call of the same tree this is: 1 or 2
    first,          \* how the first evaluate call ended, once it has
    operands,       \* the numbers lhs and rhs handed to the builtin %
    remainder,      \* what the builtin % returned for them, once it has
    doc,            \* CodeEditor: the text of editorView
    outputDoc,      \* CodeEditor: the text of outputView, the output pane
    workerQueue,    \* the {prog} messages posted to the worker, not yet handled
    mainQueue,      \* the {success, output} messages posted by the worker,
                    \* not yet handled by the page
    posted,         \* how many messages the page has posted
    answered        \* how many messages the worker has posted

vars == <<input, parsed, phase, next, continuations, envs, finalResult,
          finalCalls, currentExpr, allocated, thrown, seqI, emptyEnv, run,
          first, operands, remainder, doc, outputDoc, workerQueue, mainQueue,
          posted, answered>>

parseVars == <<input, parsed, phase>>
evalVars == <<next, continuations, envs, finalResult, finalCalls,
              currentExpr, allocated, thrown, seqI, emptyEnv>>
runVars == <<run, first>>
moduloVars == <<operands, remainder>>
pageVars == <<doc, outputDoc, workerQueue, mainQueue, posted, answered>>
otherVars == <<moduloVars, pageVars>>

(***************************************************************************)
(* Lexer                                                                   *)
(***************************************************************************)

staticTokenToType ==
    ("+" :> "PLUS") @@ ("-" :> "MINUS") @@ ("*" :> "MULTIPLY") @@
    ("/" :> "DIVIDE") @@ ("%" :> "MODULO") @@ ("**" :> "POWER") @@
    ("<" :> "LT") @@ ("<=" :> "LE") @@ (">" :> "GT") @@ (">=" :> "GE") @@
    ("=" :> "EQ") @@ ("!=" :> "NE") @@ ("|" :> "OR") @@ ("&" :> "AND") @@
    ("!" :> "NOT") @@ ("(" :> "PAREN_L") @@ (")" :> "PAREN_R") @@
    ("[" :> "BRACKET_L") @@ ("]" :> "BRACKET_R") @@ ("," :> "COMMA") @@
    ("." :> "DOT") @@ ("@" :> "AT") @@ ("let" :> "LET") @@
    ("and" :> "LET_AND") @@ ("in" :> "IN") @@ ("if" :> "IF") @@
    ("then" :> "THEN") @@ ("else" :> "ELSE")

\* The lexemes the NUMBER pattern matches, with the value Number() gives them.
NumberValue ==
    ("0" :> 0) @@ ("1" :> 1) @@ ("2" :> 2) @@ ("3" :> 3) @@ ("4" :> 4) @@
    ("5" :> 5) @@ ("6" :> 6) @@ ("7" :> 7) @@ ("8" :> 8) @@ ("9" :> 9)

\* The lexemes the STRING pattern matches, with the value JSON.parse gives them.
StringValue == ("\"a\"" :> "a") @@ ("\"b\"" :> "b")

\* One match of the lexer's pattern: static tokens first, then numbers,
\* then names (re-checked against the static table), then strings.
TokenType(lexeme) ==
    IF lexeme \in DOMAIN staticTokenToType THEN staticTokenToType[lexeme]
    ELSE IF lexeme \in DOMAIN NumberValue THEN "NUMBER"
    ELSE IF lexeme \in DOMAIN StringValue THEN "STRING"
    ELSE "NAME"

RECURSIVE StartOf(_, _)
\* Offset of the i-th lexeme in the source text.
StartOf(src, i) ==
    IF i = 1 THEN 0 ELSE StartOf(src, i - 1) + Len(src[i - 1]) + 1

SourceLength(src) ==
    IF Len(src) = 0 THEN 0 ELSE StartOf(src, Len(src)) + Len(src[Len(src)])

\* Lexer._advance at the end of the text.
EOFToken(src) == [type |-> "EOF", value |-> "<EOF>", start |-> SourceLength(src)]

\* Lexer.peek() with p - 1 tokens consumed.
peek(src, p) ==
    IF p <= Len(src)
    THEN [type |-> TokenType(src[p]), value |-> src[p], start |-> StartOf(src, p)]
    ELSE EOFToken(src)

(***************************************************************************)
(* Parser                                                                  *)
(***************************************************************************)

NoNode == [type |-> "none"]

\* A parse function's outcome: an expression, null, or a thrown Error; pos is
\* the lexer position afterwards.
Ok(node, p) == [st |-> "ok", node |-> node, pos |-> p, msg |-> ""]
ParseNull(p) == [st |-> "null", node |-> NoNode, pos |-> p, msg |-> ""]
ParseErr(m, p) == [st |-> "err", node |-> NoNode, pos |-> p, msg |-> m]

infixToBuiltin ==
    ("PLUS" :> "+") @@ ("MINUS" :> "-") @@ ("MULTIPLY" :> "*") @@
    ("DIVIDE" :> "/") @@ ("MODULO" :> "%") @@ ("POWER" :> "**") @@
    ("OR" :> "|") @@ ("AND" :> "&") @@ ("LT" :> "<") @@ ("LE" :> "<=") @@
    ("GT" :> ">") @@ ("GE" :> ">=") @@ ("EQ" :> "=") @@ ("NE" :> "!=")

prefixBindingPower ==
    ("AT" :> 1) @@ ("LET" :> 1) @@ ("IF" :> 3) @@ ("MINUS" :> 19) @@
    ("NOT" :> 19)

prefixToBuiltin == ("MINUS" :> "negate") @@ ("NOT" :> "!")

\* infixBindingPower with | and & exchanged.
infixBindingPower_orAnd ==
    ("EQ" :> <<5, 6>>) @@ ("NE" :> <<5, 6>>) @@
    ("LT" :> <<7, 8>>) @@ ("LE" :> <<7, 8>>) @@
    ("GT" :> <<7, 8>>) @@ ("GE" :> <<7, 8>>) @@
    ("OR" :> <<11, 12>>) @@ ("AND" :> <<9, 10>>) @@
    ("PLUS" :> <<13, 14>>) @@ ("MINUS" :> <<13, 14>>) @@
    ("MULTIPLY" :> <<15, 16>>) @@ ("DIVIDE" :> <<15, 16>>) @@
    ("MODULO" :> <<15, 16>>) @@ ("POWER" :> <<17, 18>>)

\* infixBindingPower with the comparisons below the equalities.
infixBindingPower_comparisonFirst ==
    ("EQ" :> <<5, 6>>) @@ ("NE" :> <<5, 6>>) @@
    ("LT" :> <<3, 4>>) @@ ("LE" :> <<3, 4>>) @@
    ("GT" :> <<3, 4>>) @@ ("GE" :> <<3, 4>>) @@
    ("OR" :> <<9, 10>>) @@ ("AND" :> <<11, 12>>) @@
    ("PLUS" :> <<13, 14>>) @@ ("MINUS" :> <<13, 14>>) @@
    ("MULTIPLY" :> <<15, 16>>) @@ ("DIVIDE" :> <<15, 16>>) @@
    ("MODULO" :> <<15, 16>>) @@ ("POWER" :> <<17, 18>>)

infixBindingPower ==
    ("EQ" :> <<5, 6>>) @@ ("NE" :> <<5, 6>>) @@
    ("LT" :> <<7, 8>>) @@ ("LE" :> <<7, 8>>) @@
    ("GT" :> <<7, 8>>) @@ ("GE" :> <<7, 8>>) @@
    ("OR" :> <<9, 10>>) @@ ("AND" :> <<11, 12>>) @@
    ("PLUS" :> <<13, 14>>) @@ ("MINUS" :> <<13, 14>>) @@
    ("MULTIPLY" :> <<15, 16>>) @@ ("DIVIDE" :> <<15, 16>>) @@
    ("MODULO" :> <<15, 16>>) @@ ("POWER" :> <<17, 18>>)

\* emptyBindingPower with the right power above the left one.
emptyBindingPower_left == <<24, 25>>

emptyBindingPower == <<24, 23>>

\* postfixBindingPower with the comma above juxtaposition.
postfixBindingPower_tight == ("COMMA" :> 25)

postfixBindingPower == ("COMMA" :> 21)

\* The tokens at which parseExpression's loop stops.
LoopBreakTokens ==
    {"EOF", "PAREN_R", "BRACKET_R", "IN", "THEN", "ELSE", "LET_AND", "DOT"}

parseNumber(src, p) ==
    LET literal(num) ==
            IF num.type # "NUMBER" THEN ParseNull(p)
            ELSE Ok([type |-> "number", value |-> NumberValue[num.value],
                     start |-> num.start, end |-> num.start + Len(num.value)],
                    p + 1)
    IN literal(peek(src, p))

parseString(src, p) ==
    LET literal(str) ==
            IF str.type # "STRING" THEN ParseNull(p)
            ELSE Ok([type |-> "string", value |-> StringValue[str.value],
                     start |-> str.start, end |-> str.start + Len(str.value)],
                    p + 1)
    IN literal(peek(src, p))

parseName(src, p) ==
    LET variable(nx) ==
            IF nx.type # "NAME" THEN ParseNull(p)
            ELSE Ok([type |-> "variable", value |-> nx.value,
                     start |-> nx.start, end |-> nx.start + Len(nx.value)],
                    p + 1)
    IN variable(peek(src, p))

RECURSIVE parseExpression(_, _, _)
RECURSIVE parseLoop(_, _, _, _)
RECURSIVE parseArrayElements(_, _, _)
RECURSIVE parseLetVariables(_, _, _, _)

parseParenthesized(src, p) ==
    LET closing(nx, inner) ==
            IF inner.st = "err" THEN inner
            ELSE IF inner.st = "null"
            THEN Ok([type |-> "unit", start |-> nx.start,
                     end |-> nx.start + Len(nx.value)], inner.pos + 1)
            ELSE IF peek(src, inner.pos).type # "PAREN_R"
            THEN ParseErr("Expected closing parenthesis", inner.pos + 1)
            ELSE Ok(inner.node, inner.pos + 1)
        opening(nx) ==
            IF nx.type # "PAREN_L" THEN ParseNull(p)
            ELSE closing(nx, parseExpression(src, p + 1, 0))
    IN opening(peek(src, p))

\* The for (;;) of parseArray: elements collected so far, lexer at p.
parseArrayElements(src, p, elements) ==
    LET element(parsedExpr) ==
            IF parsedExpr.st = "err" THEN parsedExpr
            ELSE IF parsedExpr.st = "null" THEN ParseErr("Expected expression", p)
            ELSE IF peek(src, parsedExpr.pos).type # "DOT"
            THEN [st |-> "ok", node |-> Append(elements, parsedExpr.node),
                  pos |-> parsedExpr.pos, msg |-> ""]
            ELSE parseArrayElements(src, parsedExpr.pos + 1,
                                    Append(elements, parsedExpr.node))
    IN element(parseExpression(src, p, 0))

parseArray(src, p) ==
    LET closing(nx, elems, endBracket) ==
            IF endBracket.type # "BRACKET_R"
            THEN ParseErr("Expected closing bracket", elems.pos + 1)
            ELSE Ok([type |-> "array", elements |-> elems.node,
                     start |-> nx.start,
                     end |-> endBracket.start + Len(endBracket.value)],
                    elems.pos + 1)
        contents(nx, elems) ==
            IF elems.st = "err" THEN elems
            ELSE closing(nx, elems, peek(src, elems.pos))
        opening(nx, afterBracket) ==
            IF nx.type # "BRACKET_L" THEN ParseNull(p)
            ELSE IF afterBracket.type # "BRACKET_R"
            THEN contents(nx, parseArrayElements(src, p + 1, <<>>))
            ELSE contents(nx, [st |-> "ok", node |-> <<>>, pos |-> p + 1,
                               msg |-> ""])
    IN opening(peek(src, p), peek(src, p + 1))

\* The for (;;) of the LET case: bindings collected so far, lexer at p.
parseLetVariables(src, p, rbp, variables) ==
    LET bound(vs, value) ==
            IF peek(src, value.pos).type # "LET_AND"
            THEN [st |-> "ok", node |-> vs, pos |-> value.pos, msg |-> ""]
            ELSE parseLetVariables(src, value.pos + 1, rbp, vs)
        binding(nextToken, value) ==
            IF value.st = "err" THEN value
            ELSE IF value.st = "null" THEN ParseErr("Expected expression", value.pos)
            ELSE bound(Append(variables, [name |-> nextToken.value,
                                          value |-> value.node]), value)
        name(nextToken) ==
            IF nextToken.type # "NAME" THEN ParseErr("Expected variable name", p + 1)
            ELSE binding(nextToken, parseExpression(src, p + 1, rbp))
    IN name(peek(src, p))

parsePrefix(src, p) ==
    LET \* case AT
        defun(nx, nextToken, body) ==
            IF body.st = "err" THEN body
            ELSE IF body.st = "null" THEN ParseErr("Expected expression", body.pos)
            ELSE Ok([type |-> "defun", argument |-> nextToken.value,
                     body |-> body.node, start |-> nx.start,
                     end |-> body.node.end], body.pos)
        argument(nx, rbp, nextToken) ==
            IF nextToken.type # "NAME" THEN ParseErr("Expected argument name", p + 2)
            ELSE defun(nx, nextToken, parseExpression(src, p + 2, rbp))
        \* case LET
        letBody(nx, variables, body) ==
            IF body.st = "err" THEN body
            ELSE IF body.st = "null" THEN ParseErr("Expected expression", body.pos)
            ELSE Ok([type |-> "let", variables |-> variables.node,
                     body |-> body.node, start |-> nx.start,
                     end |-> body.node.end], body.pos)
        letIn(nx, rbp, variables) ==
            IF variables.st = "err" THEN variables
            ELSE IF peek(src, variables.pos).type # "IN"
            THEN ParseErr("Expected 'in'", variables.pos + 1)
            ELSE letBody(nx, variables,
                         parseExpression(src, variables.pos + 1, rbp))
        \* case IF
        ifElse(nx, condition, trueBranch, falseBranch) ==
            IF falseBranch.st = "err" THEN falseBranch
            ELSE IF falseBranch.st = "null"
            THEN ParseErr("Expected expression", falseBranch.pos)
            ELSE Ok([type |-> "if", condition |-> condition.node,
                     trueBranch |-> trueBranch.node,
                     falseBranch |-> falseBranch.node,
                     start |-> nx.start, end |-> falseBranch.node.end],
                    falseBranch.pos)
        ifThen(nx, rbp, condition, trueBranch) ==
            IF trueBranch.st = "err" THEN trueBranch
            ELSE IF trueBranch.st = "null"
            THEN ParseErr("Expected expression", trueBranch.pos)
            ELSE IF peek(src, trueBranch.pos).type # "ELSE"
            THEN ParseErr("Expected 'else'", trueBranch.pos + 1)
            ELSE ifElse(nx, condition, trueBranch,
                        parseExpression(src, trueBranch.pos + 1, rbp))
        ifCondition(nx, rbp, condition) ==
            IF condition.st = "err" THEN condition
            ELSE IF condition.st = "null"
            THEN ParseErr("Expected expression", condition.pos)
            ELSE IF peek(src, condition.pos).type # "THEN"
            THEN ParseErr("Expected 'then'", condition.pos + 1)
            ELSE ifThen(nx, rbp, condition,
                        parseExpression(src, condition.pos + 1, rbp))
        \* case NOT, MINUS
        unary(nx, operand) ==
            IF operand.st = "err" THEN operand
            ELSE IF operand.st = "null"
            THEN ParseErr("Expected expression", operand.pos)
            ELSE Ok([type |-> "apply",
                     lhs |-> [type |-> "variable",
                              value |-> prefixToBuiltin[nx.type],
                              start |-> nx.start,
                              end |-> nx.start + Len(nx.value)],
                     rhs |-> operand.node,
                     start |-> nx.start, end |-> operand.node.end],
                    operand.pos)
        prefix(nx, rbp) ==
            CASE nx.type = "AT" -> argument(nx, rbp, peek(src, p + 1))
              [] nx.type = "LET" ->
                    letIn(nx, rbp, parseLetVariables(src, p + 1, rbp, <<>>))
              [] nx.type = "IF" ->
                    ifCondition(nx, rbp, parseExpression(src, p + 1, rbp))
              [] OTHER -> unary(nx, parseExpression(src, p + 1, rbp))
        operator(nx) ==
            IF nx.type \notin DOMAIN prefixBindingPower THEN ParseNull(p)
            ELSE prefix(nx, prefixBindingPower[nx.type])
    IN operator(peek(src, p))

\* The first half of parseExpression: the prefix term, tried in the code's order.
parseTerm(src, p) ==
    LET orString(r5) == IF r5.st # "null" THEN r5 ELSE parseString(src, p)
        orName(r4) == IF r4.st # "null" THEN r4 ELSE orString(parseName(src, p))
        orPrefix(r3) == IF r3.st # "null" THEN r3 ELSE orName(parsePrefix(src, p))
        orArray(r2) == IF r2.st # "null" THEN r2 ELSE orPrefix(parseArray(src, p))
        orParenthesized(r1) ==
            IF r1.st # "null" THEN r1 ELSE orArray(parseParenthesized(src, p))
    IN orParenthesized(parseNumber(src, p))

\* The for (;;) of parseExpression, with lhs parsed and the lexer at p.
parseLoop(src, lhs, p, minBP) ==
    LET \* two expressions in a row
        juxtaposed(rhs) ==
            IF rhs.st = "err" THEN rhs
            ELSE IF rhs.st = "null" THEN ParseErr("Expected expression", rhs.pos)
            ELSE parseLoop(src,
                           [type |-> "apply", lhs |-> lhs, rhs |-> rhs.node,
                            start |-> lhs.start, end |-> rhs.node.end],
                           rhs.pos, minBP)
        infix(op, rhs) ==
            IF rhs.st = "err" THEN rhs
            ELSE IF rhs.st = "null" THEN ParseErr("Expected expression", rhs.pos)
            ELSE parseLoop(src,
                           [type |-> "apply",
                            lhs |-> [type |-> "apply",
                                     lhs |-> [type |-> "variable",
                                              value |-> infixToBuiltin[op.type],
                                              start |-> op.start,
                                              end |-> op.start + Len(op.value)],
                                     rhs |-> lhs,
                                     start |-> lhs.start,
                                     end |-> op.start + Len(op.value)],
                            rhs |-> rhs.node,
                            start |-> lhs.start,
                            end |-> rhs.node.start + rhs.node.end],
                           rhs.pos, minBP)
        operator(op) ==
            IF op.type \in LoopBreakTokens THEN Ok(lhs, p)
            ELSE IF op.type \in DOMAIN postfixBindingPower
            THEN IF postfixBindingPower[op.type] < minBP THEN Ok(lhs, p)
                 ELSE parseLoop(src, lhs, p + 1, minBP)
            ELSE IF op.type \notin DOMAIN infixBindingPower
            THEN IF emptyBindingPower[1] < minBP THEN Ok(lhs, p)
                 ELSE juxtaposed(parseExpression(src, p, emptyBindingPower[2]))
            ELSE IF infixBindingPower[op.type][1] < minBP THEN Ok(lhs, p)
            ELSE infix(op, parseExpression(src, p + 1,
                                           infixBindingPower[op.type][2]))
    IN operator(peek(src, p))

parseExpression(src, p, minBP) ==
    LET operators(lhs) ==
            IF lhs.st # "ok" THEN lhs
            ELSE parseLoop(src, lhs.node, lhs.pos, minBP)
    IN operators(parseTerm(src, p))

\* parse without the check that the next token is EOF.
parse_anyRest(src) ==
    LET whole(r) ==
            IF r.st = "err" THEN r
            ELSE IF r.st = "null" THEN ParseErr("Expected expression", r.pos)
            ELSE r
    IN whole(parseExpression(src, 1, 0))

\* parse(input): the expression, or the error thrown.
parse(src) ==
    LET whole(r) ==
            IF r.st = "err" THEN r
            ELSE IF r.st = "null" THEN ParseErr("Expected expression", r.pos)
            ELSE IF peek(src, r.pos).type # "EOF"
            THEN ParseErr("Expected EOF", r.pos + 1)
            ELSE r
    IN whole(parseExpression(src, 1, 0))

RECURSIVE sexpr(_)
RECURSIVE sexprJoin(_, _, _)

\* elements.map(sexpr).join(sep), from element i on.
sexprJoin(elements, i, sep) ==
    IF i > Len(elements) THEN ""
    ELSE sexpr(elements[i]) \o
         (IF i < Len(elements) THEN sep \o sexprJoin(elements, i + 1, sep) ELSE "")

RECURSIVE sexprBindings(_, _)
sexprBindings(variables, i) ==
    IF i > Len(variables) THEN ""
    ELSE variables[i].name \o " " \o sexpr(variables[i].value) \o
         (IF i < Len(variables) THEN " and " \o sexprBindings(variables, i + 1)
          ELSE "")

sexpr(expr) ==
    CASE expr.type = "variable" -> expr.value
      [] expr.type = "number" -> ToString(expr.value)
      [] expr.type = "string" -> "\"" \o expr.value \o "\""
      [] expr.type = "array" ->
            "(array " \o sexprJoin(expr.elements, 1, " ") \o ")"
      [] expr.type = "let" ->
            "(let " \o sexprBindings(expr.variables, 1) \o " in " \o
            sexpr(expr.body) \o ")"
      [] expr.type = "if" ->
            "(if " \o sexpr(expr.condition) \o " then " \o
            sexpr(expr.trueBranch) \o " else " \o sexpr(expr.falseBranch) \o ")"
      [] expr.type = "apply" ->
            "(apply " \o sexpr(expr.lhs) \o " " \o sexpr(expr.rhs) \o ")"
      [] expr.type = "unit" -> "()"
      [] expr.type = "defun" ->
            "(fun " \o expr.argument \o " " \o sexpr(expr.body) \o ")"

(***************************************************************************)
(* Values                                                                  *)
(***************************************************************************)

\* Value = number | string | ExprFunc | Value[] | null, and JavaScript's
\* undefined for a finalResult that was never assigned.  Numbers are the
\* integers and NaN.
Undefined == [t |-> "undefined", v |-> 0]
NullValue == [t |-> "null", v |-> 0]
NumberV(n) == [t |-> "number", v |-> n]
NaN == [t |-> "nan", v |-> 0]
StringV(s) == [t |-> "string", v |-> s]
ArrayV(a) == [t |-> "array", v |-> a]

\* An ExprFunc: the closure made by a 'defun' node, or one stage of the curried
\* chain wrapFunction / wrapDeferred build around a builtin.  id tells
\* function objects apart (0: made when the root environment was built).
ClosureV(id, expr, environment) ==
    [t |-> "function",
     v |-> [kind |-> "closure", id |-> id, name |-> "", args |-> <<>>,
            expr |-> expr, environment |-> environment]]
CurriedV(id, kind, name, args) ==
    [t |-> "function",
     v |-> [kind |-> kind, id |-> id, name |-> name, args |-> args,
            expr |-> NoNode, environment |-> 0]]

typeof(value) ==
    CASE value.t \in {"number", "nan"} -> "number"
      [] value.t = "string" -> "string"
      [] value.t = "function" -> "function"
      [] value.t = "undefined" -> "undefined"
      [] OTHER -> "object"

truthy_nonzero(value) == value # 0
truthy(value) == value > 0

\* String(value) as Array.prototype.join applies it to an element.
RECURSIVE JoinValues(_, _, _)
JSString(value) ==
    CASE value.t = "number" -> ToString(value.v)
      [] value.t = "nan" -> "NaN"
      [] value.t = "string" -> value.v
      [] value.t = "array" -> JoinValues(value.v, 1, ",")
      [] value.t = "function" -> "function"
      [] OTHER -> ""
JoinValues(a, i, sep) ==
    IF i > Len(a) THEN ""
    ELSE JSString(a[i]) \o
         (IF i < Len(a) THEN sep \o JoinValues(a, i + 1, sep) ELSE "")

printValue(value) ==
    CASE typeof(value) = "number" -> JSString(value)
      [] typeof(value) = "string" -> "\"" \o value.v \o "\""
      [] typeof(value) = "object" ->
            IF value.t = "null" THEN "()"
            ELSE "[" \o JoinValues(value.v, 1, ". ") \o "]"
      [] typeof(value) = "function" -> "[function]"
      [] OTHER -> "undefined"

\* The param guards: "" when the input passes, else the TypeError's message.
expectAny(inp) == ""
expectNull(inp) ==
    IF inp.t # "null" THEN "Expected null, got " \o printValue(inp) ELSE ""
expectNumber(inp) ==
    IF typeof(inp) # "number" THEN "Expected number, got " \o printValue(inp)
    ELSE ""
expectArray(inp) ==
    IF typeof(inp) # "object" \/ inp.t = "null"
    THEN "Expected array, got " \o printValue(inp) ELSE ""
expectFunction(inp) ==
    IF typeof(inp) # "function" THEN "Expected function, got " \o printValue(inp)
    ELSE ""
RECURSIVE expectEach(_, _)
\* The loop of expectArrayOf(expectNumber) from element i on.
expectEach(a, i) ==
    IF i > Len(a) THEN ""
    ELSE IF expectNumber(a[i]) # "" THEN expectNumber(a[i])
    ELSE expectEach(a, i + 1)
expectArrayOfNumbers(inp) ==
    IF expectArray(inp) # "" THEN expectArray(inp) ELSE expectEach(inp.v, 1)

Guard(g, inp) ==
    CASE g = "expectAny" -> expectAny(inp)
      [] g = "expectNull" -> expectNull(inp)
      [] g = "expectNumber" -> expectNumber(inp)
      [] g = "expectArray" -> expectArray(inp)
      [] g = "expectFunction" -> expectFunction(inp)
      [] g = "expectArrayOfNumbers" -> expectArrayOfNumbers(inp)

(***************************************************************************)
(* Builtins                                                                *)
(***************************************************************************)

MAX_REROLLS == 100

\* The builtins table: how each entry is wrapped, and its param guards.
builtins ==
    ("floor" :> [wrap |-> "wrapFunction", guards |-> <<"expectNumber">>]) @@
    ("ceil" :> [wrap |-> "wrapFunction", guards |-> <<"expectNumber">>]) @@
    ("round" :> [wrap |-> "wrapFunction", guards |-> <<"expectNumber">>]) @@
    ("abs" :> [wrap |-> "wrapFunction", guards |-> <<"expectNumber">>]) @@
    ("sort" :> [wrap |-> "wrapFunction", guards |-> <<"expectArrayOfNumbers">>]) @@
    ("len" :> [wrap |-> "wrapFunction", guards |-> <<"expectAny">>]) @@
    ("drop" :> [wrap |-> "wrapDeferred",
                guards |-> <<"expectFunction", "expectArrayOfNumbers">>]) @@
    ("highest" :> [wrap |-> "wrapFunction",
                   guards |-> <<"expectNumber", "expectArrayOfNumbers">>]) @@
    ("lowest" :> [wrap |-> "wrapFunction",
                  guards |-> <<"expectNumber", "expectArrayOfNumbers">>]) @@
    ("map" :> [wrap |-> "wrapDeferred",
               guards |-> <<"expectArray", "expectFunction">>]) @@
    ("reduce" :> [wrap |-> "wrapDeferred",
                  guards |-> <<"expectArray", "expectFunction",
                               "expectAny">>]) @@
    ("reroll" :> [wrap |-> "wrapDeferred",
                  guards |-> <<"expectFunction", "expectFunction">>]) @@
    ("explode" :> [wrap |-> "wrapDeferred",
                   guards |-> <<"expectNumber", "expectFunction",
                                "expectFunction">>]) @@
    ("+" :> [wrap |-> "wrapFunction", guards |-> <<"expectAny", "expectAny">>]) @@
    ("-" :> [wrap |-> "wrapFunction",
             guards |-> <<"expectNumber", "expectNumber">>]) @@
    ("*" :> [wrap |-> "wrapFunction",
             guards |-> <<"expectNumber", "expectNumber">>]) @@
    ("<" :> [wrap |-> "wrapFunction",
             guards |-> <<"expectNumber", "expectNumber">>]) @@
    ("<=" :> [wrap |-> "wrapFunction",
              guards |-> <<"expectNumber", "expectNumber">>]) @@
    (">" :> [wrap |-> "wrapFunction",
             guards |-> <<"expectNumber", "expectNumber">>]) @@
    (">=" :> [wrap |-> "wrapFunction",
              guards |-> <<"expectNumber", "expectNumber">>]) @@
    ("=" :> [wrap |-> "wrapFunction", guards |-> <<"expectAny", "expectAny">>]) @@
    ("!=" :> [wrap |-> "wrapFunction",
              guards |-> <<"expectNumber", "expectNumber">>]) @@
    ("|" :> [wrap |-> "wrapFunction",
             guards |-> <<"expectNumber", "expectNumber">>]) @@
    ("&" :> [wrap |-> "wrapFunction",
             guards |-> <<"expectNumber", "expectNumber">>]) @@
    ("%" :> [wrap |-> "wrapFunction",
             guards |-> <<"expectNumber", "expectNumber">>]) @@
    ("!" :> [wrap |-> "wrapFunction", guards |-> <<"expectNumber">>]) @@
    ("..." :> [wrap |-> "wrapFunction", guards |-> <<"expectArray">>]) @@
    ("negate" :> [wrap |-> "wrapFunction", guards |-> <<"expectNumber">>])

\* The environment argument of evaluate() that the test suite passes: seq, a
\* wrapFunction over a counter, returning 1, 2, 3, ...
externalBindings ==
    ("seq" :> [wrap |-> "wrapFunction", guards |-> <<"expectNull">>])

wrappers == externalBindings @@ builtins

BoolToNumber(b) == IF b THEN 1 ELSE 0

\* addValues without the append and prepend cases.
addValues_sameShape(lhs, rhs) ==
    IF lhs.t = "array" /\ rhs.t = "array"
    THEN [thrown |-> "", value |-> ArrayV(lhs.v \o rhs.v)]
    ELSE IF typeof(lhs) = "number" /\ typeof(rhs) = "number"
    THEN [thrown |-> "",
          value |-> IF lhs.t = "nan" \/ rhs.t = "nan" THEN NaN
                    ELSE NumberV(lhs.v + rhs.v)]
    ELSE IF lhs.t = "string" /\ rhs.t = "string"
    THEN [thrown |-> "", value |-> StringV(lhs.v \o rhs.v)]
    ELSE [thrown |-> "Expected number, string, or array", value |-> Undefined]

addValues(lhs, rhs) ==
    IF lhs.t = "array" /\ rhs.t = "array"
    THEN [thrown |-> "", value |-> ArrayV(lhs.v \o rhs.v)]
    ELSE IF lhs.t = "array"
    THEN [thrown |-> "", value |-> ArrayV(Append(lhs.v, rhs))]
    ELSE IF rhs.t = "array"
    THEN [thrown |-> "", value |-> ArrayV(<<lhs>> \o rhs.v)]
    ELSE IF typeof(lhs) = "number" /\ typeof(rhs) = "number"
    THEN [thrown |-> "",
          value |-> IF lhs.t = "nan" \/ rhs.t = "nan" THEN NaN
                    ELSE NumberV(lhs.v + rhs.v)]
    ELSE IF lhs.t = "string" /\ rhs.t = "string"
    THEN [thrown |-> "", value |-> StringV(lhs.v \o rhs.v)]
    ELSE [thrown |-> "Expected number, string, or array", value |-> Undefined]

\* a === b for two values of the same typeof that are not both arrays:
\* numbers and strings by value (NaN equals nothing), null with null,
\* functions by identity.
StrictEquals(a, b) ==
    IF a.t # b.t THEN FALSE
    ELSE CASE a.t \in {"number", "string"} -> a.v = b.v
           [] a.t = "nan" -> FALSE
           [] a.t = "function" -> a.v.id = b.v.id /\ a.v.name = b.v.name
           [] OTHER -> TRUE

RECURSIVE equals(_, _)
RECURSIVE equalsFrom(_, _, _)
\* The for loop of equals over two arrays of the same length, from index i.
equalsFrom(a, b, i) ==
    IF i > Len(a) THEN TRUE
    ELSE IF ~equals(a[i], b[i]) THEN FALSE
    ELSE equalsFrom(a, b, i + 1)
equals(a, b) ==
    IF typeof(a) # typeof(b) THEN FALSE
    ELSE IF a.t = "array" /\ b.t = "array"
    THEN IF Len(a.v) # Len(b.v) THEN FALSE ELSE equalsFrom(a.v, b.v, 1)
    ELSE StrictEquals(a, b)

Max2(a, b) == IF a >= b THEN a ELSE b
Min2(a, b) == IF a <= b THEN a ELSE b
Abs(n) == IF n < 0 THEN 0 - n ELSE n

\* lhs % rhs of JavaScript on integers, rhs not 0: the sign of the dividend.
Remainder(lhs, rhs) ==
    IF lhs >= 0 THEN lhs % Abs(rhs) ELSE 0 - ((0 - lhs) % Abs(rhs))

\* What JavaScript's arithmetic gives a builtin one of whose operands is NaN:
\* the comparisons are false, everything else is NaN.
NaNResult(name) ==
    IF name \in {"<", "<=", ">", ">="} THEN NumberV(0)
    ELSE IF name = "!=" THEN NumberV(1)
    ELSE NaN

RECURSIVE sumLoop_swapped(_, _, _)
\* The loop of builtins['...'] with the operands of addValues exchanged.
sumLoop_swapped(values, sum, i) ==
    IF i > Len(values) THEN [thrown |-> "", value |-> sum]
    ELSE IF addValues(values[i], sum).thrown # ""
    THEN addValues(values[i], sum)
    ELSE sumLoop_swapped(values, addValues(values[i], sum).value, i + 1)

RECURSIVE sumLoop(_, _, _)
\* The for loop of builtins['...'] from index i on (i = 2 is the second
\* element): sum = addValues(sum, values[i]).
sumLoop(values, sum, i) ==
    IF i > Len(values) THEN [thrown |-> "", value |-> sum]
    ELSE IF addValues(sum, values[i]).thrown # ""
    THEN addValues(sum, values[i])
    ELSE sumLoop(values, addValues(sum, values[i]).value, i + 1)

RECURSIVE SortAscending(_)
\* items.slice(0).sort((a, b) => a - b) on an array of integers: the least
\* element first, then the rest sorted.
SortAscending(items) ==
    IF Len(items) = 0 THEN <<>>
    ELSE LET least == CHOOSE i \in 1 .. Len(items) :
                          \A j \in 1 .. Len(items) : items[i].v <= items[j].v
         IN <<items[least]>> \o
            SortAscending(SubSeq(items, 1, least - 1) \o
                          SubSeq(items, least + 1, Len(items)))

\* items.slice(0).sort((a, b) => b - a)
SortDescending(items) ==
    [i \in 1 .. Len(items) |-> SortAscending(items)[Len(items) + 1 - i]]

\* Array.prototype.slice(start) with start = items.length - n: a negative
\* start counts from the end, NaN is 0.
SliceFromLengthMinus(items, n) ==
    IF n.t = "nan" THEN items
    ELSE IF Len(items) - n.v < 0
    THEN SubSeq(items, Max2(Len(items) + (Len(items) - n.v), 0) + 1, Len(items))
    ELSE SubSeq(items, Min2(Len(items) - n.v, Len(items)) + 1, Len(items))

\* items.sort(compare) with no slice(0) before it: Array.prototype.sort sorts
\* the array it is called on, so the receiver is what gets sorted.
sliceSort_inPlace(items, descending) ==
    [receiver |-> IF descending THEN SortDescending(items)
                  ELSE SortAscending(items),
     copy |-> IF descending THEN SortDescending(items)
              ELSE SortAscending(items)]

\* items.slice(0).sort(compare): slice makes a new array and sort sorts that
\* one; the receiver of slice is as it was.
sliceSort(items, descending) ==
    [receiver |-> items,
     copy |-> IF descending THEN SortDescending(items)
              ELSE SortAscending(items)]

\* The body of a wrapFunction builtin on its guarded arguments; counter is
\* seq's counter before the call.  [thrown, value, counter, args]: args are
\* the argument objects as the body leaves them.
StrictBuiltin(name, args, counter) ==
    LET Ret(v) == [thrown |-> "", value |-> v, counter |-> counter,
                   args |-> args]
        Sort(sorting) ==
            [thrown |-> "", value |-> ArrayV(sorting.copy), counter |-> counter,
             args |-> <<ArrayV(sorting.receiver)>>]
        Select(n, sorting) ==
            [thrown |-> "",
             value |-> ArrayV(SliceFromLengthMinus(sorting.copy, n)),
             counter |-> counter, args |-> <<n, ArrayV(sorting.receiver)>>]
    IN
    IF /\ \E i \in 1 .. Len(args) : args[i].t = "nan"
       /\ name \in {"floor", "ceil", "round", "abs", "-", "*", "%", "<", "<=",
                    ">", ">=", "!=", "|", "&", "!", "negate"}
    THEN Ret(NaNResult(name))
    ELSE
    CASE name \in {"floor", "ceil", "round"} -> Ret(NumberV(args[1].v))
      [] name = "abs" -> Ret(NumberV(Abs(args[1].v)))
      [] name = "..." ->
            IF Len(args[1].v) = 0 THEN Ret(NullValue)
            ELSE IF Len(args[1].v) = 1 THEN Ret(args[1].v[1])
            ELSE [thrown |-> sumLoop(args[1].v, args[1].v[1], 2).thrown,
                  value |-> sumLoop(args[1].v, args[1].v[1], 2).value,
                  counter |-> counter, args |-> args]
      [] name = "sort" -> Sort(sliceSort(args[1].v, FALSE))
      [] name = "highest" -> Select(args[1], sliceSort(args[2].v, FALSE))
      [] name = "lowest" -> Select(args[1], sliceSort(args[2].v, TRUE))
      [] name = "len" ->
            IF args[1].t = "array" THEN Ret(NumberV(Len(args[1].v)))
            ELSE IF args[1].t = "string" THEN Ret(NumberV(Len(args[1].v)))
            ELSE [thrown |-> "Expected array or string", value |-> Undefined,
                  counter |-> counter, args |-> args]
      [] name = "+" ->
            [thrown |-> addValues(args[1], args[2]).thrown,
             value |-> addValues(args[1], args[2]).value, counter |-> counter,
             args |-> args]
      [] name = "-" -> Ret(NumberV(args[1].v - args[2].v))
      [] name = "*" -> Ret(NumberV(args[1].v * args[2].v))
      [] name = "%" ->
            IF args[2].v = 0 THEN Ret(NaN)
            ELSE Ret(NumberV(Remainder(Remainder(args[1].v, args[2].v) +
                                           args[2].v, args[2].v)))
      [] name = "<" -> Ret(NumberV(BoolToNumber(args[1].v < args[2].v)))
      [] name = "<=" -> Ret(NumberV(BoolToNumber(args[1].v <= args[2].v)))
      [] name = ">" -> Ret(NumberV(BoolToNumber(args[1].v > args[2].v)))
      [] name = ">=" -> Ret(NumberV(BoolToNumber(args[1].v >= args[2].v)))
      [] name = "=" -> Ret(NumberV(BoolToNumber(equals(args[1], args[2]))))
      [] name = "!=" -> Ret(NumberV(BoolToNumber(~equals(args[1], args[2]))))
      [] name = "|" -> Ret(NumberV(Max2(args[1].v, args[2].v)))
      [] name = "&" -> Ret(NumberV(Min2(args[1].v, args[2].v)))
      [] name = "!" -> Ret(NumberV(1 - args[1].v))
      [] name = "negate" -> Ret(NumberV(0 - args[1].v))
      [] name = "seq" ->
            [thrown |-> "", value |-> NumberV(counter), counter |-> counter + 1,
             args |-> args]

(***************************************************************************)
(* Environments                                                            *)
(***************************************************************************)

EMPTY_ENV == [n \in {} |-> Undefined]

\* new Environment(variables, parent); parent 0 is null.
Environment(variables, parent) == [variables |-> variables, parent |-> parent]

RECURSIVE lookup(_, _, _)
\* Environment.lookup from currentEnv up the parent chain; Undefined if the
\* chain ends without a binding.
lookup(heap, currentEnv, varName) ==
    IF currentEnv = 0 THEN Undefined
    ELSE IF varName \in DOMAIN heap[currentEnv].variables
    THEN heap[currentEnv].variables[varName]
    ELSE lookup(heap, heap[currentEnv].parent, varName)

\* rootVariables: every wrapper applied to the continuation stack.
rootVariables ==
    [name \in DOMAIN wrappers |-> CurriedV(0, wrappers[name].wrap, name, <<>>)]

(***************************************************************************)
(* Evaluator                                                               *)
(*                                                                         *)
(* One iteration of evaluate()'s while loop is one step.  Within it the    *)
(* continuations call each other synchronously; that cascade is computed   *)
(* on a record m of the loop's mutable state:                              *)
(*   [next, continuations, envs, finalResult, finalCalls, allocated,       *)
(*    thrown, counter]                                                     *)
(* A continuation is a JavaScript closure; here it is the record of the    *)
(* variables it closes over, tagged with the place that pushed it.         *)
(***************************************************************************)

NullFrame == [expr |-> NoNode, environment |-> 0]
StackFrame(expr, environment) == [expr |-> expr, environment |-> environment]

Throw(m, msg) == [m EXCEPT !.thrown = msg]
Push(m, k) == [m EXCEPT !.continuations = Append(@, k)]
SetNext(m, expr, environment) ==
    [m EXCEPT !.next = StackFrame(expr, environment)]

\* The initial continuation: finalResult = result.
FinalContinuation == [kind |-> "final"]

RECURSIVE Pop(_, _)
RECURSIVE Invoke(_, _, _)
RECURSIVE CallFunction(_, _, _)
RECURSIVE arrayEvalNext(_, _, _, _, _)
RECURSIVE numericEvalNext(_, _, _, _, _)
RECURSIVE mapEvalNext(_, _, _, _, _)
RECURSIVE call(_, _, _, _)
RECURSIVE reduceEvalNext(_, _, _, _, _)
RECURSIVE rerollEvalNext(_, _, _, _)
RECURSIVE explodeEvalNext(_, _, _, _, _, _)

\* report(result) of wrapDeferred.
report(m, result) == Pop(m, result)

\* call(input, arg, continuation) of wrapDeferred: the function is invoked
\* first, the continuation is pushed after it returns.
call(m, inputFn, arg, continuation) ==
    LET called == CallFunction(m, inputFn, arg) IN
    IF called.thrown # "" THEN called ELSE Push(called, continuation)

\* evalNext of case 'array' with elemIndex elements evaluated.
arrayEvalNext(m, expr, environment, evaluatedElements, elemIndex) ==
    IF elemIndex = Len(expr.elements)
    THEN Pop(m, ArrayV(evaluatedElements))
    ELSE Push(SetNext(m, expr.elements[elemIndex + 1], environment),
              [kind |-> "arrayElem", expr |-> expr, environment |-> environment,
               evaluatedElements |-> evaluatedElements, elemIndex |-> elemIndex])

\* numericApplyDone with the comparison off by one.
numericApplyDone_offByOne(numRemaining) ==
    numRemaining.t = "number" /\ numRemaining.v < 0

\* The test that ends the loop of a numeric apply: numRemaining <= 0, which
\* is false of NaN.
numericApplyDone(numRemaining) ==
    numRemaining.t = "number" /\ numRemaining.v <= 0

\* numRemaining--
Decrement(numRemaining) ==
    IF numRemaining.t = "nan" THEN NaN ELSE NumberV(numRemaining.v - 1)

\* evalNext of a numeric apply with numRemaining evaluations to go.
numericEvalNext(m, expr, environment, evaluatedElements, numRemaining) ==
    IF numericApplyDone(numRemaining)
    THEN Pop(m, ArrayV(evaluatedElements))
    ELSE Push(SetNext(m, expr.rhs, environment),
              [kind |-> "applyNumber", expr |-> expr, environment |-> environment,
               evaluatedElements |-> evaluatedElements,
               numRemaining |-> numRemaining])

\* The continuation case 'apply' pushes for its callee.
applyContinuation(m, k, lhs) ==
    CASE typeof(lhs) = "function" ->
            Push(SetNext(m, k.expr.rhs, k.environment),
                 [kind |-> "applyFunction", lhs |-> lhs])
      [] typeof(lhs) = "number" ->
            numericEvalNext(m, k.expr, k.environment, <<>>, lhs)
      [] typeof(lhs) = "object" ->
            IF expectArray(lhs) # "" THEN Throw(m, expectArray(lhs))
            ELSE Push(SetNext(m, k.expr.rhs, k.environment),
                      [kind |-> "applyArray", arr |-> lhs.v])
      [] OTHER -> m

\* Math.round on the model's integers.
MathRound(n) == n

\* rhs < 0 || rhs >= arr.length: both comparisons are false of NaN.
indexOutOfBounds(arr, rhs) ==
    rhs.t = "number" /\ (MathRound(rhs.v) < 0 \/ MathRound(rhs.v) >= Len(arr))

\* The continuation an array callee pushes for its index; arr[NaN] is
\* undefined.
indexContinuation(m, k, rhs) ==
    IF expectNumber(rhs) # "" THEN Throw(m, expectNumber(rhs))
    ELSE IF indexOutOfBounds(k.arr, rhs)
    THEN Throw(m, "Array index " \o JSString(rhs) \o " out of bounds")
    ELSE IF rhs.t = "nan" THEN Pop(m, Undefined)
    ELSE Pop(m, k.arr[MathRound(rhs.v) + 1])

\* evalNext(i) of a let whose values are evaluated in the enclosing
\* environment.
letEvalNext_outer(m, expr, newEnv, newVars, i) ==
    Push(SetNext(m, expr.variables[i + 1].value, m.envs[newEnv].parent),
         [kind |-> "letVariable", expr |-> expr, newEnv |-> newEnv,
          newVars |-> newVars, i |-> i])

\* evalNext(i) of case 'let': the i-th value expression is scheduled in newEnv,
\* whose variables are still EMPTY_ENV.
letEvalNext(m, expr, newEnv, newVars, i) ==
    Push(SetNext(m, expr.variables[i + 1].value, newEnv),
         [kind |-> "letVariable", expr |-> expr, newEnv |-> newEnv,
          newVars |-> newVars, i |-> i])

\* Environment.update copying the properties into the object the environment
\* already has, which for a let's newEnv is the shared EMPTY_ENV.
update_inPlace(m, env, variables) ==
    [m EXCEPT !.envs[env].variables = variables @@ m.emptyEnv,
              !.emptyEnv = variables @@ @]

\* Environment.update: the environment gets the new object.
update(m, env, variables) == [m EXCEPT !.envs[env].variables = variables]

\* letContinuation filling newEnv in after every binding (sequential let).
letContinuation_sequential(m, k, varValue) ==
    LET newVars == (k.expr.variables[k.i + 1].name :> varValue) @@ k.newVars
        filled == update(m, k.newEnv, newVars)
    IN
    IF k.i = Len(k.expr.variables) - 1
    THEN SetNext(filled, k.expr.body, k.newEnv)
    ELSE letEvalNext(filled, k.expr, k.newEnv, newVars, k.i + 1)

\* The continuation case 'let' pushes for the i-th value.
letContinuation(m, k, varValue) ==
    LET newVars == (k.expr.variables[k.i + 1].name :> varValue) @@ k.newVars IN
    IF k.i = Len(k.expr.variables) - 1
    THEN SetNext(update(m, k.newEnv, newVars), k.expr.body, k.newEnv)
    ELSE letEvalNext(m, k.expr, k.newEnv, newVars, k.i + 1)

\* The continuation case 'if' pushes for its condition.
ifContinuation(m, k, condValue) ==
    IF expectNumber(condValue) # "" THEN Throw(m, expectNumber(condValue))
    ELSE SetNext(m,
                 IF condValue.t = "number" /\ truthy(condValue.v)
                 THEN k.expr.trueBranch
                 ELSE k.expr.falseBranch,
                 k.environment)

\* evalNext of builtins.map with i elements mapped.
mapEvalNext(m, arr, mapper, results, i) ==
    call(m, mapper, arr[i + 1],
         [kind |-> "mapElement", arr |-> arr, mapper |-> mapper,
          results |-> results, i |-> i])

\* The continuation builtins.map passes to call().
mapContinuation(m, k, mappedValue) ==
    LET results == Append(k.results, mappedValue) IN
    IF k.i + 1 = Len(k.arr) THEN report(m, ArrayV(results))
    ELSE mapEvalNext(m, k.arr, k.mapper, results, k.i + 1)

\* evalNext of builtins.reduce with i elements folded into prev.
reduceEvalNext(m, arr, reducer, prev, i) ==
    IF i = Len(arr) THEN report(m, prev)
    ELSE call(m, reducer, prev,
              [kind |-> "reduceOuter", arr |-> arr, reducer |-> reducer, i |-> i])

\* The continuation builtins.reduce passes to call(reducer, prev, ...).
reduceOuterContinuation(m, k, innerReducer) ==
    IF expectFunction(innerReducer) # "" THEN Throw(m, expectFunction(innerReducer))
    ELSE call(m, innerReducer, k.arr[k.i + 1],
              [kind |-> "reduceInner", arr |-> k.arr, reducer |-> k.reducer,
               i |-> k.i])

\* The continuation builtins.reduce passes to call(innerReducerFunc, arr[i], ...).
reduceInnerContinuation(m, k, result) ==
    reduceEvalNext(m, k.arr, k.reducer, result, k.i + 1)

\* evalNext of builtins.reroll after i attempts.
rerollEvalNext(m, roll, cond, i) ==
    call(m, roll, NullValue,
         [kind |-> "rerollRoll", roll |-> roll, cond |-> cond, i |-> i])

\* The continuation builtins.reroll passes to call(roll, ...).
rerollRollContinuation(m, k, rollResult) ==
    call(m, k.cond, rollResult,
         [kind |-> "rerollCond", roll |-> k.roll, cond |-> k.cond, i |-> k.i,
          rollResult |-> rollResult])

\* The continuation builtins.reroll passes to call(cond, ...): i++, then the
\* roll is reported if the condition is truthy or i > MAX_REROLLS.
rerollCondContinuation(m, k, condResult) ==
    IF expectNumber(condResult) # "" THEN Throw(m, expectNumber(condResult))
    ELSE IF (condResult.t = "number" /\ truthy(condResult.v)) \/
            k.i + 1 > MAX_REROLLS
    THEN report(m, k.rollResult)
    ELSE rerollEvalNext(m, k.roll, k.cond, k.i + 1)

RECURSIVE dropLoop(_, _, _, _)
\* The for loop of builtins.drop from the i-th roll on: a roll whose count in
\* elemCounts is not 0 is skipped and the count decremented, any other roll
\* is pushed to results.
dropLoop(rollsArr, elemCounts, i, results) ==
    IF i > Len(rollsArr) THEN results
    ELSE IF rollsArr[i] \in DOMAIN elemCounts /\ elemCounts[rollsArr[i]] # 0
    THEN dropLoop(rollsArr, [elemCounts EXCEPT ![rollsArr[i]] = @ - 1], i + 1,
                  results)
    ELSE dropLoop(rollsArr, elemCounts, i + 1, Append(results, rollsArr[i]))

\* The continuation builtins.drop passes to call(dropFunc, ...): the
\* occurrences of each element to drop are counted, then the rolls filtered.
dropContinuation(m, k, dropResult) ==
    IF expectArrayOfNumbers(dropResult) # ""
    THEN Throw(m, expectArrayOfNumbers(dropResult))
    ELSE report(m, ArrayV(dropLoop(
             k.rollsArr,
             [elem \in {dropResult.v[i] : i \in 1 .. Len(dropResult.v)} |->
                 Cardinality({i \in 1 .. Len(dropResult.v) :
                                 dropResult.v[i] = elem})],
             1, <<>>)))

\* evalNext of builtins.explode: i chains ended, rolls made so far.
explodeEvalNext(m, numRolls, roll, cond, rolls, i) ==
    call(m, roll, NullValue,
         [kind |-> "explodeRoll", numRolls |-> numRolls, roll |-> roll,
          cond |-> cond, rolls |-> rolls, i |-> i])

\* The continuation builtins.explode passes to call(roll, ...).
explodeRollContinuation(m, k, rollResult) ==
    call(m, k.cond, rollResult,
         [kind |-> "explodeCond", numRolls |-> k.numRolls, roll |-> k.roll,
          cond |-> k.cond, rolls |-> Append(k.rolls, rollResult), i |-> k.i])

\* The continuation builtins.explode passes to call(cond, ...): a truthy
\* condition rolls again, a falsy one ends a chain (i++) and the rolls are
\* reported when i === numRolls.
explodeCondContinuation(m, k, condResult) ==
    IF expectNumber(condResult) # "" THEN Throw(m, expectNumber(condResult))
    ELSE IF condResult.t = "number" /\ truthy(condResult.v)
    THEN explodeEvalNext(m, k.numRolls, k.roll, k.cond, k.rolls, k.i)
    ELSE IF k.numRolls.t = "number" /\ k.i + 1 = k.numRolls.v
    THEN report(m, ArrayV(k.rolls))
    ELSE explodeEvalNext(m, k.numRolls, k.roll, k.cond, k.rolls, k.i + 1)

\* The body of a wrapDeferred builtin on its guarded arguments.
DeferredBuiltin(m, name, args) ==
    CASE name = "map" ->
            IF Len(args[1].v) > 0
            THEN mapEvalNext(m, args[1].v, args[2], <<>>, 0)
            ELSE report(m, ArrayV(<<>>))
      [] name = "reduce" -> reduceEvalNext(m, args[1].v, args[2], args[3], 0)
      [] name = "reroll" -> rerollEvalNext(m, args[1], args[2], 0)
      [] name = "drop" ->
            call(m, args[1], args[2], [kind |-> "drop", rollsArr |-> args[2].v])
      [] name = "explode" ->
            explodeEvalNext(m, args[1], args[2], args[3], <<>>, 0)

\* callClosure with the body run under the most recently created environment
\* (the call site's) instead of the captured one.
callClosure_callSite(m, f, argValue) ==
    LET newVars == (f.expr.argument :> argValue) IN
    [m EXCEPT !.envs = Append(@, Environment(newVars, Len(m.envs))),
              !.next = StackFrame(f.expr.body, Len(m.envs) + 1)]

\* callClosure writing the parameter into the captured environment itself.
callClosure_destructive(m, f, argValue) ==
    LET newVars == (f.expr.argument :> argValue) IN
    [m EXCEPT !.envs[f.environment].variables = newVars @@ @,
              !.next = StackFrame(f.expr.body, f.environment)]

\* The function a 'defun' node evaluates to, called with argValue: the
\* parameter is bound in a new child of the environment the node was
\* evaluated in.
callClosure(m, f, argValue) ==
    LET newVars == (f.expr.argument :> argValue) IN
    [m EXCEPT !.envs = Append(@, Environment(newVars, f.environment)),
              !.next = StackFrame(f.expr.body, Len(m.envs) + 1)]

RECURSIVE writeBackValue(_, _, _, _)
\* What a binding that held value holds once the arguments before have become
\* after.  The model's arrays carry no identity: a binding holds an argument
\* array when it has that array's elements.
writeBackValue(value, before, after, i) ==
    IF i > Len(before) THEN value
    ELSE IF before[i].t = "array" /\ equals(value, before[i]) THEN after[i]
    ELSE writeBackValue(value, before, after, i + 1)

writeBackEnvironment(environment, before, after) ==
    Environment([n \in DOMAIN environment.variables |->
                    writeBackValue(environment.variables[n], before, after, 1)],
                environment.parent)

\* An array is an object: the array a builtin's body received is the one the
\* environments hold, so what the body did to it shows under every name bound
\* to it.
writeBack(m, before, after) ==
    IF \A i \in DOMAIN before :
           before[i].t = "array" => equals(before[i], after[i])
    THEN m
    ELSE [m EXCEPT !.envs = [e \in DOMAIN @ |->
                                writeBackEnvironment(@[e], before, after)]]

\* One stage of the chain curried() builds in wrapFunction, called with arg.
callWrapFunction(m, f, arg) ==
    LET guards == wrappers[f.name].guards
        guardIdx == Len(f.args)
        failure == Guard(guards[guardIdx + 1], arg)
    IN
    IF failure # "" THEN Throw(m, failure)
    ELSE IF Len(guards) - guardIdx <= 1
    THEN LET returned(args, r) ==
                 IF r.thrown # "" THEN Throw(m, r.thrown)
                 ELSE Pop(writeBack([m EXCEPT !.counter = r.counter], args,
                                    r.args),
                          r.value)
             body(args) == returned(args, StrictBuiltin(f.name, args, m.counter))
         IN body(Append(f.args, arg))
    ELSE Pop([m EXCEPT !.allocated = @ + 1],
             CurriedV(m.allocated + 1, "wrapFunction", f.name,
                      Append(f.args, arg)))

\* One stage of the chain curried() builds in wrapDeferred, called with arg.
callWrapDeferred(m, f, arg) ==
    LET guards == wrappers[f.name].guards
        guardIdx == Len(f.args)
        failure == Guard(guards[guardIdx + 1], arg)
    IN
    IF failure # "" THEN Throw(m, failure)
    ELSE IF Len(guards) - guardIdx <= 1
    THEN DeferredBuiltin(m, f.name, Append(f.args, arg))
    ELSE Pop([m EXCEPT !.allocated = @ + 1],
             CurriedV(m.allocated + 1, "wrapDeferred", f.name,
                      Append(f.args, arg)))

\* Calling an ExprFunc value.
CallFunction(m, fn, arg) ==
    CASE fn.v.kind = "closure" -> callClosure(m, fn.v, arg)
      [] fn.v.kind = "wrapFunction" -> callWrapFunction(m, fn.v, arg)
      [] fn.v.kind = "wrapDeferred" -> callWrapDeferred(m, fn.v, arg)

\* Calling the continuation k with result.
Invoke(k, m, result) ==
    CASE k.kind = "final" ->
            [m EXCEPT !.finalResult = result, !.finalCalls = @ + 1]
      [] k.kind = "arrayElem" ->
            arrayEvalNext(m, k.expr, k.environment,
                          Append(k.evaluatedElements, result), k.elemIndex + 1)
      [] k.kind = "apply" -> applyContinuation(m, k, result)
      [] k.kind = "applyFunction" -> CallFunction(m, k.lhs, result)
      [] k.kind = "applyNumber" ->
            numericEvalNext(m, k.expr, k.environment,
                            Append(k.evaluatedElements, result),
                            Decrement(k.numRemaining))
      [] k.kind = "applyArray" -> indexContinuation(m, k, result)
      [] k.kind = "letVariable" -> letContinuation(m, k, result)
      [] k.kind = "if" -> ifContinuation(m, k, result)
      [] k.kind = "mapElement" -> mapContinuation(m, k, result)
      [] k.kind = "reduceOuter" -> reduceOuterContinuation(m, k, result)
      [] k.kind = "reduceInner" -> reduceInnerContinuation(m, k, result)
      [] k.kind = "rerollRoll" -> rerollRollContinuation(m, k, result)
      [] k.kind = "rerollCond" -> rerollCondContinuation(m, k, result)
      [] k.kind = "drop" -> dropContinuation(m, k, result)
      [] k.kind = "explodeRoll" -> explodeRollContinuation(m, k, result)
      [] k.kind = "explodeCond" -> explodeCondContinuation(m, k, result)

\* continuations.pop()!(result); popping the empty stack gives undefined, and
\* calling that is a TypeError.
Pop(m, result) ==
    IF Len(m.continuations) = 0
    THEN Throw(m, "continuations.pop(...) is not a function")
    ELSE Invoke(m.continuations[Len(m.continuations)],
                [m EXCEPT !.continuations =
                              SubSeq(@, 1, Len(m.continuations) - 1)],
                result)

(***************************************************************************)
(* Source texts                                                            *)
(***************************************************************************)

MaxCount == 3       \* numeric callees range over -1 .. MaxCount
MaxOperand == 3     \* number operands range over 1 .. MaxOperand
MaxArr == 2         \* mapped arrays have up to MaxArr elements
MaxSeqCalls == 105  \* a run is followed until seq() was called MaxSeqCalls times

Counts == (0 - 1) .. MaxCount
Operands == 1 .. MaxOperand

\* The lexemes of the number n; a negative one is written (-k).
Num(n) == IF n < 0 THEN <<"(", "-", ToString(0 - n), ")">> ELSE <<ToString(n)>>

\* [n seq(). seq()]
NumericApplyProgram(n) ==
    <<"[">> \o Num(n) \o <<"seq", "(", ")", ".", "seq", "(", ")", "]">>

\* let k n in [k seq(). seq()]
NumericApplyLetProgram(n) ==
    <<"let", "k">> \o Num(n) \o
    <<"in", "[", "k", "seq", "(", ")", ".", "seq", "(", ")", "]">>

\* n (2 seq())
NumericApplyNestedProgram(n) == Num(n) \o <<"(", "2", "seq", "(", ")", ")">>

NumericPrograms ==
    {NumericApplyProgram(n) : n \in Counts} \cup
    {NumericApplyLetProgram(n) : n \in Counts} \cup
    {NumericApplyNestedProgram(n) : n \in Counts}

RECURSIVE ArrayLiteralFrom(_, _)
ArrayLiteralFrom(ns, i) ==
    IF i > Len(ns) THEN <<>>
    ELSE Num(ns[i]) \o
         (IF i < Len(ns) THEN <<".">> \o ArrayLiteralFrom(ns, i + 1) ELSE <<>>)

\* [n1. n2. ...]
ArrayLiteral(ns) == <<"[">> \o ArrayLiteralFrom(ns, 1) \o <<"]">>

OperandArrays == UNION {[1 .. len -> Operands] : len \in 0 .. MaxArr}

\* A user closure and a strict builtin, as the second argument of map.
Mappers == ("closure" :> <<"(", "@", "x", "x", "*", "2", ")">>) @@
           ("builtin" :> <<"floor">>)

\* map [n1. n2. ...], mapper
MapProgram(ns, mapper) ==
    <<"map">> \o ArrayLiteral(ns) \o <<",">> \o Mappers[mapper]

\* map [(@x x)], (map [n1. n2. ...]): the mapper is a partially applied builtin
MapPartialProgram(ns) ==
    <<"map", "[", "(", "@", "x", "x", ")", "]", ",", "(", "map">> \o
    ArrayLiteral(ns) \o <<")">>

MapPrograms ==
    {MapProgram(ns, mapper) : ns \in OperandArrays, mapper \in DOMAIN Mappers}
    \cup {MapPartialProgram(ns) : ns \in OperandArrays}

\* let x v and y x + 1 in [x. y]
LetSelfProgram(v) ==
    <<"let", "x">> \o Num(v) \o
    <<"and", "y", "x", "+", "1", "in", "[", "x", ".", "y", "]">>

\* let x v0 in let x v1 and y x in [x. y]
LetShadowProgram(v0, v1) ==
    <<"let", "x">> \o Num(v0) \o <<"in", "let", "x">> \o Num(v1) \o
    <<"and", "y", "x", "in", "[", "x", ".", "y", "]">>

LetPrograms ==
    {LetSelfProgram(v) : v \in Operands} \cup
    {LetShadowProgram(v0, v1) : v0 \in Operands, v1 \in Operands}

\* let x @_ p in (let p v in x ())
ScopeProgram(v) ==
    <<"let", "x", "@", "_", "p", "in", "(", "let", "p">> \o Num(v) \o
    <<"in", "x", "(", ")", ")">>

\* let x 5 in (let closure @x @y [x. y] in closure a), b
ClosureProgram(a, b) ==
    <<"let", "x", "5", "in", "(", "let", "closure", "@", "x", "@", "y",
      "[", "x", ".", "y", "]", "in", "closure">> \o Num(a) \o
    <<")", ",">> \o Num(b)

ScopePrograms ==
    {ScopeProgram(v) : v \in Operands} \cup
    {ClosureProgram(a, b) : a \in Operands, b \in Operands}

\* (@x [x. (@x x * 2) b. x]) a
ParameterProgram(a, b) ==
    <<"(", "@", "x", "[", "x", ".", "(", "@", "x", "x", "*", "2", ")">> \o
    Num(b) \o <<".", "x", "]", ")">> \o Num(a)

\* let addOne (let add @x @y x + y in add 1) in [addOne a. addOne b]
PartialProgram(a, b) ==
    <<"let", "addOne", "(", "let", "add", "@", "x", "@", "y", "x", "+", "y",
      "in", "add", "1", ")", "in", "[", "addOne">> \o Num(a) \o
    <<".", "addOne">> \o Num(b) \o <<"]">>

\* let mk @x @_ x in (let f mk a and g mk b in [f (). g (). f ()])
MakerProgram(a, b) ==
    <<"let", "mk", "@", "x", "@", "_", "x", "in", "(", "let", "f", "mk">> \o
    Num(a) \o <<"and", "g", "mk">> \o Num(b) \o
    <<"in", "[", "f", "(", ")", ".", "g", "(", ")", ".", "f", "(", ")", "]",
      ")">>

ParameterPrograms ==
    {ParameterProgram(a, b) : a \in Operands, b \in Operands} \cup
    {PartialProgram(a, b) : a \in Operands, b \in Operands} \cup
    {MakerProgram(a, b) : a \in Operands, b \in Operands}

\* a < b = c > d
ComparisonProgram(a, b, c, d) ==
    Num(a) \o <<"<">> \o Num(b) \o <<"=">> \o Num(c) \o <<">">> \o Num(d)

ComparisonPrograms ==
    {ComparisonProgram(a, b, c, d) :
        a \in Operands, b \in Operands, c \in Operands, d \in Operands}

\* Programs of the test suite that use the remaining node kinds.
OtherPrograms ==
    {<<"\"a\"">>,
     <<"if", "1", "<", "2", "then", "\"a\"", "else", "\"b\"">>,
     <<"[", "1", ".", "2", "]", "1">>}

SeqCall == <<"seq", "(", ")">>

\* Array literals whose elements count their evaluations with seq(), directly
\* or inside a closure call, a strict builtin call or a map.
ArrayPrograms ==
    {<<"[", "]">>,
     <<"[">> \o SeqCall \o <<"]">>,
     <<"[">> \o SeqCall \o <<".">> \o SeqCall \o <<".">> \o SeqCall \o <<"]">>,
     <<"[", "(", "@", "x">> \o SeqCall \o <<")", "1", ".">> \o SeqCall \o <<"]">>,
     <<"[", "floor">> \o SeqCall \o <<".">> \o SeqCall \o <<"]">>,
     <<"[", "map", "[", "1", ".", "2", "]", ",", "(", "@", "x">> \o SeqCall \o
         <<")", ".">> \o SeqCall \o <<"]">>,
     <<"[", "map", "[", "1", ".", "2", "]", ",", "floor", ".", "3", "]">>}

\* seq(), seq()    (@x [x. seq()]) seq()    (@f f ()) seq
\* floor (map [1. 2], floor)
ApplyPrograms ==
    {SeqCall \o <<",">> \o SeqCall,
     <<"(", "@", "x", "[", "x", ".">> \o SeqCall \o <<"]", ")">> \o SeqCall,
     <<"(", "@", "f", "f", "(", ")", ")", "seq">>,
     <<"floor", "(", "map", "[", "1", ".", "2", "]", ",", "floor", ")">>}

\* An apply node for each runtime type of callee:
\* floor 1    2 1    [5. 6] 1    "a" 1    () 1
CalleePrograms ==
    {<<"floor", "1">>, <<"2", "1">>, <<"[", "5", ".", "6", "]", "1">>,
     <<"\"a\"", "1">>, <<"(", ")", "1">>}

\* Programs that fail (a guard, an unbound name, an index) after some work has
\* been done, with the message of the error.
FailurePrograms ==
    (<<"floor", "\"a\"">> :> "Expected number, got \"a\"") @@
    (<<"[", "1", ".", "floor", "(", ")", ".", "2", "]">> :>
        "Expected number, got ()") @@
    (<<"[">> \o SeqCall \o <<".", "q", ".">> \o SeqCall \o <<"]">> :>
        "Undefined variable: q") @@
    (<<"map", "[", "1", ".", "2", "]", ",", "(", "@", "x", "q", ")">> :>
        "Undefined variable: q") @@
    (<<"[", "1", ".", "[", "5", ".", "6", "]", "2", "]">> :>
        "Array index 2 out of bounds") @@
    (<<"if", "[", "5", "]", "1", "then", "1", "else", "2">> :>
        "Array index 1 out of bounds")

\* Values that floor rejects, so that the error message prints them:
\* "a"   ()   floor   []   [1. 2]   ["a"]   [[1. 2]]   [()]   [1. [2]. "b"]
PrintOperands ==
    (<<"\"a\"">> :> StringV("a")) @@
    (<<"(", ")">> :> NullValue) @@
    (<<"floor">> :> rootVariables["floor"]) @@
    (<<"[", "]">> :> ArrayV(<<>>)) @@
    (<<"[", "1", ".", "2", "]">> :> ArrayV(<<NumberV(1), NumberV(2)>>)) @@
    (<<"[", "\"a\"", "]">> :> ArrayV(<<StringV("a")>>)) @@
    (<<"[", "[", "1", ".", "2", "]", "]">> :>
        ArrayV(<<ArrayV(<<NumberV(1), NumberV(2)>>)>>)) @@
    (<<"[", "(", ")", "]">> :> ArrayV(<<NullValue>>)) @@
    (<<"[", "1", ".", "[", "2", "]", ".", "\"b\"", "]">> :>
        ArrayV(<<NumberV(1), ArrayV(<<NumberV(2)>>), StringV("b")>>))

\* floor <operand>
PrintProgram(operand) == <<"floor">> \o operand
PrintPrograms == {PrintProgram(operand) : operand \in DOMAIN PrintOperands}

\* The infix operators whose builtin the model evaluates.
EvaluatedOps == {"=", "!=", "<", "<=", ">", ">=", "|", "&", "+", "-", "*", "%"}

\* Operands of an infix operator, with their values.
OperatorOperands ==
    (<<"1">> :> NumberV(1)) @@ (<<"2">> :> NumberV(2)) @@
    (<<"(", "map", "[", "1", ".", "2", "]", ",", "floor", ")">> :>
        ArrayV(<<NumberV(1), NumberV(2)>>))

\* a op b
OperatorProgram(a, op, b) == a \o <<op>> \o b
OperatorPrograms ==
    {OperatorProgram(a, op, b) :
        a \in DOMAIN OperatorOperands, op \in EvaluatedOps,
        b \in DOMAIN OperatorOperands} \cup
    {OperatorProgram(SeqCall, "-", SeqCall)}

\* Operator syntax under bindings, and the number the operators' builtins
\* give: names that no operator uses, then the name negate of the prefix -.
BindingPrograms ==
    (<<"let", "n", "2", "in", "-", "n">> :> 0 - 2) @@
    (<<"let", "minus", "@", "x", "5", "in", "1", "-", "3">> :> 0 - 2) @@
    (<<"(", "@", "x", "-", "x", ")", "3">> :> 0 - 3) @@
    (<<"let", "negate", "@", "x", "5", "in", "1", "-", "3">> :> 0 - 2) @@
    (<<"let", "negate", "@", "x", "5", "in", "-", "3">> :> 0 - 3) @@
    (<<"(", "@", "negate", "-", "3", ")", "7">> :> 0 - 3)

\* The arrays and initial values reduce folds.
ReduceArrays == {<<>>, <<1>>, <<2>>, <<1, 2>>, <<2, 1>>, <<3, 1, 2>>}
ReduceInits == {0, 2}
\* reduce [ns], <reducer>, init
ReduceProgram(ns, reducer, init) ==
    <<"reduce">> \o ArrayLiteral(ns) \o <<",">> \o reducer \o <<",">> \o Num(init)
\* (@p @x (p * 2) + x), the shape of the reducer of the test
ReduceDoubling ==
    <<"(", "@", "p", "@", "x", "(", "p", "*", "2", ")", "+", "x", ")">>
\* (@p @x p + seq()): seq counts the calls of the inner function.
ReduceCounting == <<"(", "@", "p", "@", "x", "p", "+">> \o SeqCall \o <<")">>
\* (@p 5): applied to the accumulator it gives a number.
ReduceNotCurried == <<"(", "@", "p", "5", ")">>
ReduceReducers == {ReduceDoubling, ReduceCounting, ReduceNotCurried, <<"floor">>}
ReducePrograms ==
    {ReduceProgram(ns, reducer, init) :
        ns \in ReduceArrays, reducer \in ReduceReducers, init \in ReduceInits}

\* Calls of the builtins that take an array, on the let-bound array a.
FrameCalls ==
    {<<"sort", "a">>, <<"highest", "1", ",", "a">>, <<"lowest", "1", ",", "a">>,
     <<"drop", "(", "@", "r", "[", "1", "]", ")", ",", "a">>,
     <<"map", "a", ",", "(", "@", "x", "x", "+", "1", ")">>,
     <<"reduce", "a", ",", "(", "@", "p", "@", "x", "p", "+", "x", ")", ",", "0">>,
     <<"a", "+", "1">>, <<"1", "+", "a">>, <<"a", "+", "a">>,
     <<"...", "[", "a", ".", "a", "]">>}
FrameArrays == {<<2, 1>>, <<3, 1, 2>>, <<>>}

\* let a [n1. n2. ...] in [<call>. a]
FrameProgram(ns, builtinCall) ==
    <<"let", "a">> \o ArrayLiteral(ns) \o <<"in", "[">> \o builtinCall \o
        <<".", "a", "]">>
FramePrograms ==
    {FrameProgram(ns, builtinCall) :
        ns \in FrameArrays, builtinCall \in FrameCalls}

\* if <condition> then seq() else [seq()]
IfProgram(condition) ==
    <<"if">> \o condition \o <<"then">> \o SeqCall \o <<"else", "[">> \o
        SeqCall \o <<"]">>
NumberConditions ==
    (<<"1">> :> 1) @@ (<<"2">> :> 2) @@ (<<"0">> :> 0) @@ (<<"-", "1">> :> -1) @@
    (<<"0", "-", "2">> :> -2)
OtherConditions == {<<"\"a\"">>, <<"[", "1", "]">>, <<"(", ")">>, <<"floor">>}
IfPrograms ==
    {IfProgram(c) : c \in DOMAIN NumberConditions \cup OtherConditions} \cup
    {IfProgram(SeqCall \o <<"-", "1">>)}

\* [5. 6] <index>, the index an expression of the given value; NaN is 0 % 0.
IndexProgram(index) == <<"[", "5", ".", "6", "]">> \o index
NumberIndices ==
    (<<"0">> :> 0) @@ (<<"1">> :> 1) @@ (<<"2">> :> 2) @@ (<<"3">> :> 3) @@
    (<<"(", "-", "1", ")">> :> -1) @@ (<<"(", "0", "-", "2", ")">> :> -2) @@
    (<<"(", "3", "%", "2", ")">> :> 1) @@ (<<"(", "-", "1", "%", "2", ")">> :> 1)
OtherIndices == {<<"\"a\"">>, <<"[", "1", "]">>, <<"(", ")">>, <<"floor">>}
NaNIndex == <<"(", "0", "%", "0", ")">>
IndexPrograms ==
    {IndexProgram(i) : i \in DOMAIN NumberIndices \cup OtherIndices} \cup
    {IndexProgram(NaNIndex), IndexProgram(SeqCall),
     <<"[", "]", "0">>}

\* Programs whose only unbound name, q, is in a place that is never evaluated,
\* with their values.
LazyPrograms ==
    (<<"if", "0", "then", "q", "else", "1">> :> NumberV(1)) @@
    (<<"if", "1", "then", "1", "else", "q">> :> NumberV(1)) @@
    (<<"let", "f", "@", "x", "q", "in", "1">> :> NumberV(1)) @@
    (<<"len", "[", "@", "x", "q", "]">> :> NumberV(1)) @@
    (<<"0", "q">> :> ArrayV(<<>>)) @@
    (<<"(", "-", "1", ")", "q">> :> ArrayV(<<>>))
\* Programs that evaluate the unbound q.
UnboundPrograms ==
    {<<"q">>,
     <<"if", "1", "then", "q", "else", "1">>,
     <<"(", "@", "x", "q", ")", "1">>,
     <<"1", "q">>,
     <<"let", "f", "@", "x", "q", "in", "f", "1">>,
     <<"let", "a", "q", "in", "1">>}

\* let tri @x (if x = 1 then 1 else x + tri (x - 1)) in tri n
TriProgram(n) ==
    <<"let", "tri", "@", "x", "(", "if", "x", "=", "1", "then", "1", "else",
      "x", "+", "tri", "(", "x", "-", "1", ")", ")", "in", "tri">> \o Num(n)
\* let isEven @x if x = 0 then 1 else isOdd (x - 1) and isOdd
\* @x if x = 0 then 0 else isEven (x - 1) in [isEven 4. isOdd 6. isEven 5]
\* (the test's program without the parentheses around the two bodies, which
\* make no node).
EvenOddProgram ==
    <<"let", "isEven", "@", "x", "if", "x", "=", "0", "then", "1", "else",
      "isOdd", "(", "x", "-", "1", ")", "and", "isOdd", "@", "x",
      "if", "x", "=", "0", "then", "0", "else", "isEven", "(", "x", "-", "1",
      ")", "in", "[", "isEven", "4", ".", "isOdd", "6", ".", "isEven",
      "5", "]">>
RecursivePrograms == {TriProgram(n) : n \in 1 .. MaxOperand} \cup {EvenOddProgram}

\* reroll (@_ seq()), (@x x > limit): the rolls are 1, 2, 3, ...
RerollUntil(limit) ==
    <<"reroll", "(", "@", "_">> \o SeqCall \o
        <<")", ",", "(", "@", "x", "x", ">">> \o Num(limit) \o <<")">>
\* reroll (@_ seq()), (@x 0): no roll is accepted.
RerollNever ==
    <<"reroll", "(", "@", "_">> \o SeqCall \o
        <<")", ",", "(", "@", "x", "0", ")">>
\* reroll (@_ 5), (@x seq() * 0): no roll is accepted, seq counts the calls
\* of the condition.
RerollCountCond ==
    <<"reroll", "(", "@", "_", "5", ")", ",", "(", "@", "x">> \o SeqCall \o
        <<"*", "0", ")">>
\* reroll seq, (@x x > limit): the roll function is the builtin itself.
RerollBuiltin(limit) ==
    <<"reroll", "seq", ",", "(", "@", "x", "x", ">">> \o Num(limit) \o <<")">>
\* reroll (@_ seq()), (@x seq() > 4): seq counts rolls and condition calls;
\* the rolls are 1, 3, 5, the conditions see 2, 4, 6.
RerollInterleaved ==
    <<"reroll", "(", "@", "_">> \o SeqCall \o <<")", ",", "(", "@", "x">> \o
        SeqCall \o <<">", "4", ")">>
RerollPrograms ==
    {RerollUntil(limit) : limit \in 0 .. MaxOperand} \cup
    {RerollBuiltin(limit) : limit \in 0 .. MaxOperand} \cup
    {RerollNever, RerollCountCond, RerollInterleaved}

\* The conditions of the explode programs, as the body of @x.
ExplodeConditions ==
    ("never" :> <<"0">>) @@ ("two" :> <<"x", "=", "2">>) @@
    ("small" :> <<"x", "<", "3">>)
\* Whether the condition is truthy of the roll.
Explodes(c, roll) ==
    CASE c = "never" -> FALSE
      [] c = "two" -> roll = 2
      [] c = "small" -> roll < 3
\* explode n, (@_ seq()), (@x <condition>): the rolls are 1, 2, 3, ...
ExplodeProgram(n, c) ==
    <<"explode">> \o Num(n) \o <<",", "(", "@", "_">> \o SeqCall \o
        <<")", ",", "(", "@", "x">> \o ExplodeConditions[c] \o <<")">>
ExplodePrograms ==
    {ExplodeProgram(n, c) : n \in 0 .. MaxCount, c \in DOMAIN ExplodeConditions}

\* The rolls and selector results of the drop programs; the long one is the
\* test's, with 8 for 15.
DropRolls ==
    UNION {[1 .. len -> 1 .. 2] : len \in 0 .. MaxArr + 1} \cup
    {<<3, 7, 9, 2, 8, 4, 5, 7>>}
DropSelections == {<<>>, <<2>>, <<2, 2>>, <<2, 1>>, <<3>>, <<7, 2, 2>>}
\* drop (@_ [s1. s2. ...]), [r1. r2. ...]
DropProgram(selection, rolls) ==
    <<"drop", "(", "@", "_">> \o ArrayLiteral(selection) \o <<")", ",">> \o
        ArrayLiteral(rolls)
\* drop (@r r), [r1. r2. ...]: the selector returns its argument.
DropAllProgram(rolls) ==
    <<"drop", "(", "@", "r", "r", ")", ",">> \o ArrayLiteral(rolls)
\* drop (@r [seq()]), [r1. r2. ...]: seq counts the calls of the selector.
DropCountingProgram(rolls) ==
    <<"drop", "(", "@", "r", "[">> \o SeqCall \o <<"]", ")", ",">> \o
        ArrayLiteral(rolls)
\* drop (lowest 1), [3. 1. 2]: the selector is a partially applied builtin.
DropLowestProgram == <<"drop", "(", "lowest", "1", ")", ",">> \o ArrayLiteral(<<3, 1, 2>>)
DropPrograms ==
    {DropProgram(selection, rolls) :
         selection \in DropSelections, rolls \in DropRolls} \cup
    {DropAllProgram(rolls) : rolls \in DropRolls} \cup
    {DropCountingProgram(rolls) : rolls \in DropRolls} \cup
    {DropLowestProgram}

\* highest n, [i1. i2. ...] and lowest n, [i1. i2. ...]
SelectProgram(name, n, items) ==
    <<name>> \o Num(n) \o <<",">> \o ArrayLiteral(items)
SelectItems == OperandArrays \cup {<<3, 7, 9, 2, 8, 4, 5, 7>>}
SelectPrograms ==
    {SelectProgram(name, n, items) :
         name \in {"highest", "lowest"}, n \in 0 .. MaxCount + 1,
         items \in SelectItems}

\* The operands of the + programs, with their values.
PlusOperands ==
    (<<"1">> :> NumberV(1)) @@ (<<"2">> :> NumberV(2)) @@
    (<<"\"a\"">> :> StringV("a")) @@ (<<"\"b\"">> :> StringV("b")) @@
    (<<"[", "1", ".", "2", "]">> :> ArrayV(<<NumberV(1), NumberV(2)>>)) @@
    (<<"[", "\"a\"", "]">> :> ArrayV(<<StringV("a")>>)) @@
    (<<"[", "]">> :> ArrayV(<<>>)) @@
    (<<"[", "[", "1", "]", "]">> :> ArrayV(<<ArrayV(<<NumberV(1)>>)>>)) @@
    (<<"(", ")">> :> NullValue) @@
    (<<"floor">> :> rootVariables["floor"])
\* lhs + rhs
PlusProgram(lhs, rhs) == lhs \o <<"+">> \o rhs
PlusPrograms ==
    {PlusProgram(lhs, rhs) : lhs \in DOMAIN PlusOperands,
                             rhs \in DOMAIN PlusOperands}

\* lhs = rhs and lhs != rhs
EqualsProgram(lhs, op, rhs) == lhs \o <<op>> \o rhs
EqualsPrograms ==
    {EqualsProgram(lhs, op, rhs) : lhs \in DOMAIN PlusOperands, op \in {"=", "!="},
                                   rhs \in DOMAIN PlusOperands}

\* The elements of the ... programs, operands of the + programs.
SpreadElements ==
    {<<"1">>, <<"\"a\"">>, <<"[", "1", ".", "2", "]">>, <<"(", ")">>}
RECURSIVE JoinElements(_, _)
JoinElements(elements, i) ==
    IF i > Len(elements) THEN <<>>
    ELSE elements[i] \o
         (IF i < Len(elements) THEN <<".">> \o JoinElements(elements, i + 1)
          ELSE <<>>)
\* ... [e1. e2. ...]
SpreadProgram(elements) == <<"...", "[">> \o JoinElements(elements, 1) \o <<"]">>
SpreadLists == UNION {[1 .. len -> SpreadElements] : len \in 0 .. MaxArr + 1}
SpreadPrograms == {SpreadProgram(elements) : elements \in SpreadLists}

Programs ==
    DOMAIN BindingPrograms \cup ReducePrograms \cup PrintPrograms \cup OperatorPrograms \cup FramePrograms \cup DOMAIN FailurePrograms \cup CalleePrograms \cup SpreadPrograms \cup EqualsPrograms \cup PlusPrograms \cup SelectPrograms \cup DropPrograms \cup ExplodePrograms \cup RerollPrograms \cup RecursivePrograms \cup DOMAIN LazyPrograms \cup UnboundPrograms \cup IndexPrograms \cup IfPrograms \cup ApplyPrograms \cup NumericPrograms \cup MapPrograms \cup LetPrograms \cup ScopePrograms \cup
    ParameterPrograms \cup ComparisonPrograms \cup OtherPrograms \cup
    ArrayPrograms

(***************************************************************************)
(* Inputs of parse() alone                                                 *)
(***************************************************************************)

InfixOps == {"=", "!=", "<", "<=", ">", ">=", "|", "&", "+", "-", "*", "/",
             "%", "**"}

Terms == {"a", "b", "c", "1"}

\* x op1 y op2 z
BinaryChain(op1, op2) == <<"a", op1, "b", op2, "c">>

\* f a , b    a , b    f a b , c    a op b , c    f a , b op c    a ,
CommaInputs ==
    {<<x, y, ",", z>> : x \in Terms, y \in Terms, z \in Terms} \cup
    {<<"a", ",", "b">>, <<"a", "b", "c", ",", "1">>, <<"a", ",">>} \cup
    {<<"a", op, "b", ",", "c">> : op \in InfixOps} \cup
    {<<"a", "b", ",", "c", op, "1">> : op \in InfixOps}

\* Expressions that are complete on their own.
CompleteExpressions ==
    {<<"a">>, <<"a", "+", "b">>, <<"(", "a", ")">>, <<"[", "a", "]">>,
     <<"a", "b">>, <<"(", ")">>, <<"-", "a">>}

\* The tokens at which the operator loop stops, other than the end of input.
StrayTokens == {")", "]", "in", "then", "else", "and", "."}

\* A complete expression, a stray token, and possibly more text.
StrayInputs ==
    {e \o <<t>> : e \in CompleteExpressions, t \in StrayTokens} \cup
    {e \o <<t, "b">> : e \in CompleteExpressions, t \in StrayTokens}

\* Tokens that cannot start an expression.
NonStartTokens == {"]", "in", "then", "else", "and", ".", ",", "+", "*", "="}

\* Texts with a ( that no ) matches, and the unit literal.
ParenInputs ==
    {<<"(">>, <<"(", "a">>, <<"(", "a", "]">>, <<"(", "(", "a", ")">>,
     <<"a", "(">>, <<"(", "a", "+", "b">>, <<"(", ")">>, <<"a", "(", ")">>}
    \cup {<<"(", t>> : t \in NonStartTokens}
    \cup {<<"(", t, "a">> : t \in NonStartTokens}

PrefixOps == {"-", "!"}

\* -a op b    !a op b    -f x    !f x    +a
PrefixInputs ==
    {<<u, "a", op, "b">> : u \in PrefixOps, op \in InfixOps} \cup
    {<<u, "f", "x">> : u \in PrefixOps} \cup
    {<<"+", "a">>}

ParseInputs ==
    PrefixInputs \cup CommaInputs \cup StrayInputs \cup ParenInputs \cup
    {BinaryChain(op1, op2) : op1 \in InfixOps, op2 \in InfixOps} \cup
    {<<"a", "b", op, "c">> : op \in InfixOps} \cup
    {<<"a", op, "b", "c">> : op \in InfixOps} \cup
    {<<x, y, z>> : x \in Terms, y \in Terms, z \in Terms} \cup
    {<<x, y, z, "c">> : x \in Terms, y \in Terms, z \in Terms}


(***************************************************************************)
(* evaluate(parse(input), {seq})                                           *)
(***************************************************************************)

NotParsed == [st |-> "none", node |-> NoNode, pos |-> 0, msg |-> ""]

\* The state evaluate() builds before its loop, for the tree parse() returned.
EvaluateInit(expr) ==
    /\ next = StackFrame(expr, 1)
    /\ continuations = <<FinalContinuation>>
    /\ envs = <<Environment(rootVariables, 0)>>
    /\ finalResult = Undefined
    /\ finalCalls = 0
    /\ currentExpr = expr
    /\ allocated = 0
    /\ thrown = ""
    /\ seqI = 1

\* No evaluate() call is in progress.
EvaluateIdle ==
    /\ next = NullFrame
    /\ continuations = <<>>
    /\ envs = <<>>
    /\ finalResult = Undefined
    /\ finalCalls = 0
    /\ currentExpr = NoNode
    /\ allocated = 0
    /\ thrown = ""
    /\ seqI = 1

\* How an evaluate call ended; "none" while the first call has not.
NoOutcome == [phase |-> "none", finalResult |-> Undefined, thrown |-> ""]

\* No number, and no result of %.
NoNumber == [high |-> 0, low |-> 0, none |-> TRUE]

\* The builtin % has not been called on its own.
ModuloIdle ==
    /\ operands = <<NoNumber, NoNumber>>
    /\ remainder = NoNumber

\* The state useEffect builds: two empty views, a worker, no message.
PageMounted ==
    /\ doc = <<>>
    /\ outputDoc = ""
    /\ workerQueue = <<>>
    /\ mainQueue = <<>>
    /\ posted = 0
    /\ answered = 0

\* The module's own state once it is loaded, before any evaluate call.
ModuleLoaded ==
    /\ emptyEnv = EMPTY_ENV
    /\ run = 1
    /\ first = NoOutcome
    /\ ModuloIdle
    /\ PageMounted

Init ==
    \E src \in Programs :
        /\ input = src
        /\ parsed = parse(src)
        /\ ModuleLoaded
        /\ IF parsed.st = "ok"
           THEN phase = "running" /\ EvaluateInit(parsed.node)
           ELSE phase = "parse_error" /\ EvaluateIdle

\* The loop's state at the top of an iteration, after `next = null`.
Machine ==
    [next |-> NullFrame, continuations |-> continuations, envs |-> envs,
     finalResult |-> finalResult, finalCalls |-> finalCalls,
     allocated |-> allocated, thrown |-> "", counter |-> seqI,
     emptyEnv |-> emptyEnv]

\* The end of an iteration with a catch clause that swallows the error.
Commit_swallow(m) ==
    /\ next' = m.next
    /\ continuations' = m.continuations
    /\ envs' = m.envs
    /\ finalResult' = m.finalResult
    /\ finalCalls' = m.finalCalls
    /\ allocated' = m.allocated
    /\ thrown' = m.thrown
    /\ seqI' = m.counter
    /\ emptyEnv' = m.emptyEnv
    /\ currentExpr' = next.expr
    /\ phase' = "running"
    /\ UNCHANGED <<input, parsed, runVars, otherVars>>

\* The end of an iteration: the loop goes on, or the catch clause rethrows.
Commit(m) ==
    /\ next' = m.next
    /\ continuations' = m.continuations
    /\ envs' = m.envs
    /\ finalResult' = m.finalResult
    /\ finalCalls' = m.finalCalls
    /\ allocated' = m.allocated
    /\ thrown' = m.thrown
    /\ seqI' = m.counter
    /\ emptyEnv' = m.emptyEnv
    /\ currentExpr' = next.expr
    /\ phase' = IF m.thrown # "" THEN "thrown" ELSE "running"
    /\ UNCHANGED <<input, parsed, runVars, otherVars>>

Dispatch(type) ==
    /\ phase = "running"
    /\ next # NullFrame
    /\ next.expr.type = type
    /\ seqI <= MaxSeqCalls

EvalUnit ==
    /\ Dispatch("unit")
    /\ Commit(Pop(Machine, NullValue))

EvalNumber ==
    /\ Dispatch("number")
    /\ Commit(Pop(Machine, NumberV(next.expr.value)))

EvalString ==
    /\ Dispatch("string")
    /\ Commit(Pop(Machine, StringV(next.expr.value)))

EvalArray ==
    /\ Dispatch("array")
    /\ Commit(arrayEvalNext(Machine, next.expr, next.environment, <<>>, 0))

EvalVariable ==
    /\ Dispatch("variable")
    /\ LET varValue == lookup(envs, next.environment, next.expr.value) IN
       IF varValue.t = "undefined"
       THEN Commit(Throw(Machine, "Undefined variable: " \o next.expr.value))
       ELSE Commit(Pop(Machine, varValue))

EvalApply ==
    /\ Dispatch("apply")
    /\ Commit(Push(SetNext(Machine, next.expr.lhs, next.environment),
                   [kind |-> "apply", expr |-> next.expr,
                    environment |-> next.environment]))

\* case 'defun' looking its body up when the closure is made.
EvalDefun_eager ==
    /\ Dispatch("defun")
    /\ IF /\ next.expr.body.type = "variable"
          /\ next.expr.body.value # next.expr.argument
          /\ lookup(envs, next.environment, next.expr.body.value).t = "undefined"
       THEN Commit(Throw(Machine,
                         "Undefined variable: " \o next.expr.body.value))
       ELSE Commit(Pop([Machine EXCEPT !.allocated = @ + 1],
                       ClosureV(allocated + 1, next.expr, next.environment)))

EvalDefun ==
    /\ Dispatch("defun")
    /\ Commit(Pop([Machine EXCEPT !.allocated = @ + 1],
                  ClosureV(allocated + 1, next.expr, next.environment)))

EvalLet ==
    /\ Dispatch("let")
    /\ Commit(letEvalNext(
           [Machine EXCEPT !.envs = Append(@, Environment(emptyEnv,
                                                          next.environment))],
           next.expr, Len(envs) + 1, EMPTY_ENV, 0))

EvalIf ==
    /\ Dispatch("if")
    /\ Commit(Push(SetNext(Machine, next.expr.condition, next.environment),
                   [kind |-> "if", expr |-> next.expr,
                    environment |-> next.environment]))

\* The while loop ends (next === null): return finalResult.
Return ==
    /\ phase = "running"
    /\ next = NullFrame
    /\ phase' = "returned"
    /\ UNCHANGED <<input, parsed, evalVars, runVars, otherVars>>

Next ==
    \/ EvalUnit
    \/ EvalNumber
    \/ EvalString
    \/ EvalArray
    \/ EvalVariable
    \/ EvalApply
    \/ EvalDefun
    \/ EvalLet
    \/ EvalIf
    \/ Return

Spec == Init /\ [][Next]_vars

(***************************************************************************)
(* evaluate(tree) called twice on the same tree                            *)
(***************************************************************************)

UsesName(src, name) == \E i \in DOMAIN src : src[i] = name

\* (@a [let b 2 in a. let a 1 in a]) 5
ShadowProgram ==
    <<"(", "@", "a", "[", "let", "b", "2", "in", "a", ".", "let", "a", "1",
      "in", "a", "]", ")", "5">>

\* Programs without the external binding seq (none uses d or dF).
TwicePrograms ==
    {src \in LetPrograms \cup ScopePrograms \cup RecursivePrograms \cup
              ParameterPrograms \cup MapPrograms \cup CalleePrograms \cup
              DOMAIN FailurePrograms \cup DOMAIN LazyPrograms \cup
              UnboundPrograms \cup OtherPrograms \cup {ShadowProgram} :
        ~UsesName(src, "seq")}

InitTwice ==
    \E src \in TwicePrograms :
        /\ input = src
        /\ parsed = parse(src)
        /\ ModuleLoaded
        /\ IF parsed.st = "ok"
           THEN phase = "running" /\ EvaluateInit(parsed.node)
           ELSE phase = "parse_error" /\ EvaluateIdle

\* The caller, after the first call has returned or thrown, calls evaluate
\* again with the same tree: every local of evaluate is made anew, what the
\* module keeps (EMPTY_ENV) and the tree are whatever the first call left.
EvaluateAgain ==
    /\ phase \in {"returned", "thrown"}
    /\ run = 1
    /\ run' = 2
    /\ first' = [phase |-> phase, finalResult |-> finalResult,
                 thrown |-> thrown]
    /\ phase' = "running"
    /\ next' = StackFrame(parsed.node, 1)
    /\ continuations' = <<FinalContinuation>>
    /\ envs' = <<Environment(rootVariables, 0)>>
    /\ finalResult' = Undefined
    /\ finalCalls' = 0
    /\ currentExpr' = parsed.node
    /\ allocated' = 0
    /\ thrown' = ""
    /\ UNCHANGED <<input, parsed, seqI, emptyEnv, otherVars>>

NextTwice ==
    \/ Next
    \/ EvaluateAgain

SpecTwice == InitTwice /\ [][NextTwice]_vars

(***************************************************************************)
(* parse(input) on its own                                                 *)
(***************************************************************************)

InitParse ==
    /\ input \in ParseInputs
    /\ parsed = NotParsed
    /\ phase = "ready"
    /\ ModuleLoaded
    /\ EvaluateIdle

Parse ==
    /\ phase = "ready"
    /\ parsed' = parse(input)
    /\ phase' = IF parsed'.st = "ok" THEN "parsed" ELSE "parse_error"
    /\ UNCHANGED <<input, evalVars, runVars, otherVars>>

NextParse == Parse

SpecParse == InitParse /\ [][NextParse]_vars

(***************************************************************************)
(* The builtin % on its own                                                *)
(***************************************************************************)

\* A JavaScript number whose value is the integer high * 2^53 + low, with low
\* small against 2^53: every integer up to 2^53 in size is such a number, and
\* between 2^53 and 2^54 every even one.
Double(high, low) == [high |-> high, low |-> low]
ToDouble(n) == Double(0, n)
IsNegative(x) == x.high < 0 \/ (x.high = 0 /\ x.low < 0)
IsZero(x) == x.high = 0 /\ x.low = 0
Less(x, y) == x.high < y.high \/ (x.high = y.high /\ x.low < y.low)
Opposite(x) == Double(0 - x.high, 0 - x.low)
Magnitude(x) == IF IsNegative(x) THEN Opposite(x) ELSE x
\* The exact difference x - y.
Difference(x, y) == Double(x.high - y.high, x.low - y.low)

RECURSIVE RemainderOfMagnitudes(_, _)
\* x - q * y for the greatest q that leaves it non-negative (x >= 0, y > 0).
RemainderOfMagnitudes(x, y) ==
    IF Less(x, y) THEN x ELSE RemainderOfMagnitudes(Difference(x, y), y)

\* lhs % rhs of JavaScript, rhs not 0: exact, with the sign of the dividend.
DoubleRemainder(lhs, rhs) ==
    IF IsNegative(lhs)
    THEN Opposite(RemainderOfMagnitudes(Opposite(lhs), Magnitude(rhs)))
    ELSE RemainderOfMagnitudes(lhs, Magnitude(rhs))

\* The number nearest to the non-negative integer x below 2^54 + 2: x itself
\* up to 2^53, above it the nearest even integer, of two equally near ones
\* the multiple of 4.
RoundMagnitude(x) ==
    IF ~Less(Double(1, 0), x) THEN x
    ELSE IF x.low % 4 = 1 THEN Double(x.high, x.low - 1)
    ELSE IF x.low % 4 = 3 THEN Double(x.high, x.low + 1)
    ELSE x

\* lhs + rhs of JavaScript: the exact sum, rounded to the nearest number.
DoubleSum(lhs, rhs) ==
    IF IsNegative(Double(lhs.high + rhs.high, lhs.low + rhs.low))
    THEN Opposite(RoundMagnitude(Opposite(Double(lhs.high + rhs.high,
                                                lhs.low + rhs.low))))
    ELSE RoundMagnitude(Double(lhs.high + rhs.high, lhs.low + rhs.low))

\* The function bound to %, ((lhs % rhs) + rhs) % rhs, on such numbers, rhs
\* not 0.  (The evaluator runs it on integers small enough for the sum
\* to be exact.)
modulo(lhs, rhs) ==
    DoubleRemainder(DoubleSum(DoubleRemainder(lhs, rhs), rhs), rhs)

\* The integers of size up to MaxOperand, and those up to MaxOperand below
\* 2^53 in size.
SmallNumbers == {ToDouble(n) : n \in (0 - MaxOperand) .. MaxOperand}
LargeNumbers ==
    {Double(1, 0 - k) : k \in 0 .. MaxOperand} \cup
    {Double(0 - 1, k) : k \in 0 .. MaxOperand}

\* The operands: rhs is not 0, and lhs is not 2^52 times rhs or more.
ModuloOperands ==
    {<<lhs, rhs>> \in (SmallNumbers \cup LargeNumbers) \X
                      (SmallNumbers \cup LargeNumbers) :
        /\ ~IsZero(rhs)
        /\ lhs \in LargeNumbers => rhs \in LargeNumbers}

InitModulo ==
    /\ operands \in ModuloOperands
    /\ remainder = NoNumber
    /\ input = <<>>
    /\ parsed = NotParsed
    /\ phase = "ready"
    /\ emptyEnv = EMPTY_ENV
    /\ run = 1
    /\ first = NoOutcome
    /\ PageMounted
    /\ EvaluateIdle

\* builtins['%'] applied to lhs and rhs.
Modulo ==
    /\ remainder = NoNumber
    /\ remainder' = modulo(operands[1], operands[2])
    /\ UNCHANGED <<operands, input, parsed, phase, evalVars, runVars, pageVars>>

NextModulo == Modulo

SpecModulo == InitModulo /\ [][NextModulo]_vars

(***************************************************************************)
(* The code editor page and its worker                                     *)
(***************************************************************************)

MaxUpdates == 2     \* the editor is updated up to MaxUpdates times

\* "a" 1: evaluate returns undefined.
StringCallee == <<"\"a\"", "1">>

\* Texts of the editor, and what the worker's reply holds for them.
EditorOutputs ==
    (<<"1">> :> "1") @@
    (<<"[", "1", ".", "2", "]">> :> "[1. 2]") @@
    (<<"let", "f", "@", "x", "if", "x", "then", "(", ")", "else", "2", "in",
       "f", "1">> :> "()") @@
    (<<"floor", "\"a\"">> :> "Expected number, got \"a\"") @@
    (<<"(", "1">> :> "Expected closing parenthesis")
EditorTexts == DOMAIN EditorOutputs \cup {StringCallee}

InitPage ==
    /\ input = <<>>
    /\ parsed = NotParsed
    /\ phase = "ready"
    /\ ModuleLoaded
    /\ EvaluateIdle

\* The updateListener of editorView, for an update that leaves it with text.
EditorUpdate ==
    \E text \in EditorTexts :
        /\ posted < MaxUpdates
        /\ doc' = text
        /\ workerQueue' = Append(workerQueue, [prog |-> text])
        /\ outputDoc' = ""
        /\ posted' = posted + 1
        /\ UNCHANGED <<input, parsed, phase, evalVars, runVars, moduloVars,
                       mainQueue, answered>>

\* self.onmessage up to the call of evaluate: parse(prog), and the state
\* evaluate builds before its loop.
WorkerOnMessage ==
    /\ phase = "ready"
    /\ workerQueue # <<>>
    /\ workerQueue' = Tail(workerQueue)
    /\ input' = Head(workerQueue).prog
    /\ parsed' = parse(Head(workerQueue).prog)
    /\ IF parsed'.st = "ok"
       THEN /\ phase' = "running"
            /\ next' = StackFrame(parsed'.node, 1)
            /\ continuations' = <<FinalContinuation>>
            /\ envs' = <<Environment(rootVariables, 0)>>
            /\ currentExpr' = parsed'.node
       ELSE /\ phase' = "parse_error"
            /\ UNCHANGED <<next, continuations, envs, currentExpr>>
    /\ UNCHANGED <<finalResult, finalCalls, allocated, thrown, seqI, emptyEnv,
                   runVars, moduloVars, doc, outputDoc, mainQueue, posted,
                   answered>>

\* What the worker posts once evaluate(parse(prog)) has returned or thrown.
WorkerReply ==
    IF phase = "returned"
    THEN [success |-> TRUE,
          output |-> IF typeof(finalResult) = "undefined" THEN Undefined
                     ELSE StringV(printValue(finalResult))]
    ELSE [success |-> FALSE,
          output |-> StringV(IF phase = "thrown" THEN thrown ELSE parsed.msg)]

\* self.onmessage from the return of evaluate on: self.postMessage.
WorkerPostMessage ==
    /\ phase \in {"returned", "thrown", "parse_error"}
    /\ mainQueue' = Append(mainQueue, WorkerReply)
    /\ answered' = answered + 1
    /\ phase' = "ready"
    /\ next' = NullFrame
    /\ continuations' = <<>>
    /\ envs' = <<>>
    /\ finalResult' = Undefined
    /\ finalCalls' = 0
    /\ currentExpr' = NoNode
    /\ allocated' = 0
    /\ thrown' = ""
    /\ UNCHANGED <<input, parsed, seqI, emptyEnv, runVars, moduloVars, doc,
                   outputDoc, workerQueue, posted>>

\* if (event.data.output): undefined and the empty string are falsy.
HasOutput(data) == data.output.t = "string" /\ data.output.v # ""

\* The page's listener for the worker's messages.
EditorOnMessage ==
    /\ mainQueue # <<>>
    /\ mainQueue' = Tail(mainQueue)
    /\ outputDoc' = IF HasOutput(Head(mainQueue)) THEN Head(mainQueue).output.v
                    ELSE outputDoc
    /\ UNCHANGED <<input, parsed, phase, evalVars, runVars, moduloVars, doc,
                   workerQueue, posted, answered>>

NextPage ==
    \/ EditorUpdate
    \/ WorkerOnMessage
    \/ Next
    \/ WorkerPostMessage
    \/ EditorOnMessage

SpecPage == InitPage /\ [][NextPage]_vars

(***************************************************************************)
(* Properties                                                              *)
(***************************************************************************)

RECURSIVE SameValue(_, _)
\* a and b are the same value: same kind, same number or string, arrays of
\* the same length with the same elements.
SameValue(a, b) ==
    /\ a.t = b.t
    /\ CASE a.t \in {"number", "string"} -> a.v = b.v
         [] a.t = "array" ->
               /\ Len(a.v) = Len(b.v)
               /\ \A i \in 1 .. Len(a.v) : SameValue(a.v[i], b.v[i])
         [] a.t = "function" -> a.v.id = b.v.id /\ a.v.name = b.v.name
         [] OTHER -> TRUE

Max0(n) == IF n > 0 THEN n ELSE 0
FromTo(a, b) == [i \in 1 .. (b - a + 1) |-> a + i - 1]
NumberArray(ns) == ArrayV([i \in 1 .. Len(ns) |-> NumberV(ns[i])])
Failed == phase \in {"thrown", "parse_error"}

\* C1: a numeric callee n makes the argument expression be evaluated exactly
\* max(n, 0) times, one after another, the results collected in evaluation
\* order; for n <= 0 the result is empty and the argument is never evaluated.
\* With the counting seq(): [n seq(). seq()] is [[1 .. max(n,0)], max(n,0) + 1],
\* while the k-th evaluation is pending the first k - 1 results are 1 .. k - 1,
\* and n (2 seq()) is max(n,0) pairs [2i - 1, 2i].
C1_NumericApply ==
    \A n \in Counts :
        /\ input \in {NumericApplyProgram(n), NumericApplyLetProgram(n)} =>
              /\ ~Failed
              /\ phase = "returned" =>
                    /\ SameValue(finalResult,
                                 ArrayV(<<NumberArray(FromTo(1, Max0(n))),
                                          NumberV(Max0(n) + 1)>>))
                    /\ seqI = Max0(n) + 2
              /\ \A i \in 1 .. Len(continuations) :
                    continuations[i].kind = "applyNumber" =>
                        LET k == continuations[i] IN
                        /\ k.numRemaining.t = "number"
                        /\ k.numRemaining.v > 0
                        /\ Len(k.evaluatedElements) + k.numRemaining.v = n
                        /\ SameValue(ArrayV(k.evaluatedElements),
                                     NumberArray(FromTo(1,
                                                        n - k.numRemaining.v)))
                        /\ seqI = n - k.numRemaining.v + 1
        /\ input = NumericApplyNestedProgram(n) =>
              /\ ~Failed
              /\ phase = "returned" =>
                    /\ SameValue(finalResult,
                                 ArrayV([i \in 1 .. Max0(n) |->
                                            NumberArray(<<2 * i - 1, 2 * i>>)]))
                    /\ seqI = 2 * Max0(n) + 1

C1_Witness ==
    /\ input = NumericApplyProgram(2)
    /\ phase = "returned"
    /\ seqI = 4

\* C2: map arr f returns the array of f applied to each element of arr, in
\* index order, for a user closure, a strict builtin and a partially applied
\* builtin alike, and every result of f reaches map's own continuation only:
\* evaluate returns that array through the final continuation, leaving no
\* continuation behind.
C2_MapCallsAnyFunction ==
    \A ns \in OperandArrays :
        /\ input = MapProgram(ns, "closure") /\ phase = "returned" =>
              SameValue(finalResult,
                        NumberArray([i \in 1 .. Len(ns) |-> 2 * ns[i]]))
        /\ input = MapProgram(ns, "builtin") /\ phase = "returned" =>
              SameValue(finalResult, NumberArray(ns))
        /\ input = MapPartialProgram(ns) /\ phase = "returned" =>
              SameValue(finalResult, ArrayV(<<NumberArray(ns)>>))
        /\ input \in {MapProgram(ns, "closure"), MapProgram(ns, "builtin"),
                      MapPartialProgram(ns)} =>
              /\ ~Failed
              /\ phase = "returned" => Len(continuations) = 0

\* C3: every value produced pops exactly one continuation, the stack is never
\* popped while empty, and when the loop ends normally the stack is empty and
\* the initial continuation has been invoked exactly once.
C3_ContinuationDiscipline ==
    /\ thrown # "continuations.pop(...) is not a function"
    /\ finalCalls <= 1
    /\ phase = "returned" => Len(continuations) = 0 /\ finalCalls = 1

\* C4: the value expressions of one let block see only the enclosing scope.
\* let x v and y x + 1 in ... throws "Undefined variable: x" at the x of y's
\* value; under an enclosing x, y gets the enclosing value; and while a let's
\* values are being evaluated its own environment holds no binding.
C4_LetBindingsIsolated ==
    /\ \A v \in Operands :
          input = LetSelfProgram(v) =>
              /\ phase \in {"running", "thrown"}
              /\ phase = "thrown" =>
                    /\ thrown = "Undefined variable: x"
                    /\ currentExpr.type = "variable"
                    /\ currentExpr.value = "x"
                    /\ currentExpr.start > parsed.node.variables[1].value.end
    /\ \A v0 \in Operands, v1 \in Operands :
          input = LetShadowProgram(v0, v1) =>
              /\ ~Failed
              /\ phase = "returned" =>
                    SameValue(finalResult, NumberArray(<<v1, v0>>))
    /\ \A i \in 1 .. Len(continuations) :
          continuations[i].kind = "letVariable" =>
              DOMAIN envs[continuations[i].newEnv].variables = {}

C4_Witness ==
    /\ input = LetSelfProgram(1)
    /\ phase = "thrown"
    /\ thrown = "Undefined variable: x"

\* C5: a function body resolves its free variables where the function literal
\* was evaluated, never at the call site: let x @_ p in (let p v in x ())
\* throws "Undefined variable: p", and
\* let x 5 in (let closure @x @y [x. y] in closure a), b gives [a, b].
C5_LexicalScoping ==
    /\ \A v \in Operands :
          input = ScopeProgram(v) =>
              /\ phase \in {"running", "thrown"}
              /\ phase = "thrown" => thrown = "Undefined variable: p"
    /\ \A a \in Operands, b \in Operands :
          input = ClosureProgram(a, b) =>
              /\ ~Failed
              /\ phase = "returned" =>
                    SameValue(finalResult, NumberArray(<<a, b>>))

C5_Witness ==
    /\ input = ScopeProgram(1)
    /\ phase = "thrown"
    /\ thrown = "Undefined variable: p"

\* C6: each call of a closure binds its parameter in a fresh child of the
\* captured environment: an inner x hides the outer x only inside that call
\* ((@x [x. (@x x * 2) b. x]) a is [a, 2b, a], the outer binding still a in
\* its own environment), and two calls of one function value keep their own
\* parameter values ([addOne a. addOne b] is [a + 1, b + 1]; f and g made by
\* two calls of mk give [a, b, a]).  No call writes into the root environment.
C6_FreshParameterBinding ==
    /\ \A a \in Operands, b \in Operands :
          /\ input = ParameterProgram(a, b) =>
                /\ ~Failed
                /\ phase = "returned" =>
                      /\ SameValue(finalResult, NumberArray(<<a, 2 * b, a>>))
                      /\ Len(envs) = 3
                      /\ envs[2].parent = 1 /\ envs[3].parent = 2
                      /\ SameValue(envs[2].variables["x"], NumberV(a))
                      /\ SameValue(envs[3].variables["x"], NumberV(b))
          /\ input = PartialProgram(a, b) =>
                /\ ~Failed
                /\ phase = "returned" =>
                      SameValue(finalResult, NumberArray(<<a + 1, b + 1>>))
          /\ input = MakerProgram(a, b) =>
                /\ ~Failed
                /\ phase = "returned" =>
                      SameValue(finalResult, NumberArray(<<a, b, a>>))
    /\ Len(envs) > 0 => DOMAIN envs[1].variables = DOMAIN rootVariables

C6_Witness ==
    /\ input = ParameterProgram(1, 2)
    /\ phase = "returned"
    /\ Len(envs) = 3

\* The operators of each precedence level, loosest first, as the parser
\* orders them: equality, comparison, |, &, additive, multiplicative, **.
Level(op) ==
    CASE op \in {"=", "!="} -> 1
      [] op \in {"<", "<=", ">", ">="} -> 2
      [] op = "|" -> 3
      [] op = "&" -> 4
      [] op \in {"+", "-"} -> 5
      [] op \in {"*", "/", "%"} -> 6
      [] op = "**" -> 7

\* The same with comparison looser than equality.
LevelComparisonLoosest(op) ==
    CASE op \in {"<", "<=", ">", ">="} -> 1
      [] op \in {"=", "!="} -> 2
      [] OTHER -> Level(op)

\* (a op1 b) op2 c
LeftGrouped(op1, op2) ==
    "(apply (apply " \o op2 \o " (apply (apply " \o op1 \o " a) b)) c)"

\* a op1 (b op2 c)
RightGrouped(op1, op2) ==
    "(apply (apply " \o op1 \o " a) (apply (apply " \o op2 \o " b) c))"

\* Juxtaposition groups before any infix operator next to it.
JuxtapositionTightest ==
    \A op \in InfixOps :
        /\ input = <<"a", "b", op, "c">> /\ phase # "ready" =>
              /\ phase = "parsed"
              /\ sexpr(parsed.node) =
                    "(apply (apply " \o op \o " (apply a b)) c)"
        /\ input = <<"a", op, "b", "c">> /\ phase # "ready" =>
              /\ phase = "parsed"
              /\ sexpr(parsed.node) =
                    "(apply (apply " \o op \o " a) (apply b c))"

\* C7 (amended): from loosest to tightest the levels are equality (=, !=),
\* comparison (<, <=, >, >=), |, &, additive (+, -), multiplicative
\* (*, /, %), ** and juxtaposition: of two neighbouring operators of
\* different levels the tighter one groups first.
C7_PrecedenceLevels ==
    /\ \A op1 \in InfixOps, op2 \in InfixOps :
          input = BinaryChain(op1, op2) /\ phase # "ready" =>
              /\ phase = "parsed"
              /\ Level(op1) < Level(op2) =>
                    sexpr(parsed.node) = RightGrouped(op1, op2)
              /\ Level(op1) > Level(op2) =>
                    sexpr(parsed.node) = LeftGrouped(op1, op2)
    /\ JuxtapositionTightest

C7_Witness ==
    /\ input = BinaryChain("<", "=")
    /\ phase = "parsed"
    /\ sexpr(parsed.node) = LeftGrouped("<", "=")

\* C7 (as stated): the same with comparison the loosest level and equality
\* the next one.
C7_ComparisonLoosest ==
    /\ \A op1 \in InfixOps, op2 \in InfixOps :
          input = BinaryChain(op1, op2) /\ phase # "ready" =>
              /\ phase = "parsed"
              /\ LevelComparisonLoosest(op1) < LevelComparisonLoosest(op2) =>
                    sexpr(parsed.node) = RightGrouped(op1, op2)
              /\ LevelComparisonLoosest(op1) > LevelComparisonLoosest(op2) =>
                    sexpr(parsed.node) = LeftGrouped(op1, op2)
    /\ JuxtapositionTightest

\* C8: a < b = c > d parses as (a < b) = (c > d), comparison binding tighter
\* than equality, and evaluates to 1 exactly when a < b and c > d agree;
\* 1 < 2 = 3 > 2 is 1.
C8_ComparisonInsideEquality ==
    \A a \in Operands, b \in Operands, c \in Operands, d \in Operands :
        input = ComparisonProgram(a, b, c, d) =>
            /\ ~Failed
            /\ sexpr(parsed.node) =
                  "(apply (apply = (apply (apply < " \o ToString(a) \o ") "
                  \o ToString(b) \o ")) (apply (apply > " \o ToString(c)
                  \o ") " \o ToString(d) \o "))"
            /\ phase = "returned" =>
                  SameValue(finalResult,
                            NumberV(IF (a < b) = (c > d) THEN 1 ELSE 0))

C8_Witness ==
    /\ input = ComparisonProgram(1, 2, 3, 2)
    /\ phase = "returned"
    /\ finalResult.t = "number"
    /\ finalResult.v = 1

\* C9: two neighbouring occurrences of one binary operator group to the left,
\* a op b op c being (a op b) op c, except for **, which groups to the right.
C9_Associativity ==
    \A op \in InfixOps :
        input = BinaryChain(op, op) /\ phase # "ready" =>
            /\ phase = "parsed"
            /\ sexpr(parsed.node) =
                  IF op = "**" THEN RightGrouped(op, op)
                  ELSE LeftGrouped(op, op)

\* C10 (amended): juxtaposition groups to the right: a b c parses as
\* Apply(a, Apply(b, c)), and a b c d as Apply(a, Apply(b, Apply(c, d))).
C10_JuxtapositionRight ==
    \A x \in Terms, y \in Terms, z \in Terms :
        /\ input = <<x, y, z>> /\ phase # "ready" =>
              /\ phase = "parsed"
              /\ sexpr(parsed.node) =
                    "(apply " \o x \o " (apply " \o y \o " " \o z \o "))"
        /\ input = <<x, y, z, "c">> /\ phase # "ready" =>
              /\ phase = "parsed"
              /\ sexpr(parsed.node) =
                    "(apply " \o x \o " (apply " \o y \o " (apply " \o z
                    \o " c)))"

C10_Witness ==
    /\ input = <<"a", "b", "c">>
    /\ phase = "parsed"
    /\ sexpr(parsed.node) = "(apply a (apply b c))"

\* C10 (as stated): juxtaposition groups to the left: a b c parses as
\* Apply(Apply(a, b), c).
C10_JuxtapositionLeft ==
    \A x \in Terms, y \in Terms, z \in Terms :
        input = <<x, y, z>> /\ phase # "ready" =>
            /\ phase = "parsed"
            /\ sexpr(parsed.node) =
                  "(apply (apply " \o x \o " " \o y \o ") " \o z \o ")"

\* C11: a comma outside an array literal only regroups.  f a , b parses as
\* Apply(Apply(f, a), b), the application left of the comma being complete
\* before the term right of it is applied; the comma leaves no node (a , b is
\* Apply(a, b) and a trailing comma leaves a alone); and a binary operator
\* groups as it does without the comma: a op b , c parses as a op b c does,
\* and f a , b op c as (f a) b op c.
C11_CommaRegroups ==
    /\ \A x \in Terms, y \in Terms, z \in Terms :
          input = <<x, y, ",", z>> /\ phase # "ready" =>
              /\ phase = "parsed"
              /\ sexpr(parsed.node) =
                    "(apply (apply " \o x \o " " \o y \o ") " \o z \o ")"
    /\ input = <<"a", ",", "b">> /\ phase # "ready" =>
          phase = "parsed" /\ sexpr(parsed.node) = "(apply a b)"
    /\ input = <<"a", ",">> /\ phase # "ready" =>
          phase = "parsed" /\ sexpr(parsed.node) = "a"
    /\ input = <<"a", "b", "c", ",", "1">> /\ phase # "ready" =>
          /\ phase = "parsed"
          /\ sexpr(parsed.node) = "(apply (apply a (apply b c)) 1)"
    /\ \A op \in InfixOps :
          /\ input = <<"a", op, "b", ",", "c">> /\ phase # "ready" =>
                /\ phase = "parsed"
                /\ sexpr(parsed.node) = sexpr(parse(<<"a", op, "b", "c">>).node)
                /\ sexpr(parsed.node) =
                      "(apply (apply " \o op \o " a) (apply b c))"
          /\ input = <<"a", "b", ",", "c", op, "1">> /\ phase # "ready" =>
                /\ phase = "parsed"
                /\ sexpr(parsed.node) =
                      "(apply (apply " \o op \o " (apply (apply a b) c)) 1)"

C11_Witness ==
    /\ input = <<"a", "b", ",", "c">>
    /\ phase = "parsed"
    /\ sexpr(parsed.node) = "(apply (apply a b) c)"

\* C12: parse accepts a text only when the whole token stream is consumed:
\* every accepted parse ends at the end of the input, and a complete
\* expression followed by a stray ) ] in then else and or . makes parse throw
\* "Expected EOF" and give no tree.
C12_WholeInputConsumed ==
    /\ phase = "parsed" => parsed.pos > Len(input)
    /\ input \in StrayInputs /\ phase # "ready" =>
          /\ phase = "parse_error"
          /\ parsed.st = "err"
          /\ parsed.msg = "Expected EOF"
          /\ parsed.node = NoNode

C12_Witness ==
    /\ input = <<"a", "+", "b", ")">>
    /\ phase = "parse_error"
    /\ parsed.msg = "Expected EOF"

RECURSIVE Opens(_, _)
\* The number of ( not yet closed after the first i lexemes (the text is one
\* without a ) that closes nothing).
Opens(src, i) ==
    IF i = 0 THEN 0
    ELSE Opens(src, i - 1) +
         (IF src[i] = "(" THEN 1 ELSE IF src[i] = ")" THEN 0 - 1 ELSE 0)

RECURSIVE HasUnit(_)
RECURSIVE AnyUnit(_, _)
\* The expression contains a unit node.
HasUnit(expr) ==
    CASE expr.type = "unit" -> TRUE
      [] expr.type = "apply" -> HasUnit(expr.lhs) \/ HasUnit(expr.rhs)
      [] expr.type = "array" -> AnyUnit(expr.elements, 1)
      [] expr.type = "defun" -> HasUnit(expr.body)
      [] OTHER -> FALSE
AnyUnit(elements, i) ==
    i <= Len(elements) /\ (HasUnit(elements[i]) \/ AnyUnit(elements, i + 1))

\* C13: parse throws for every text in which a ( has no matching ), also when
\* the ( is directly followed by the end of the input or by a token that
\* cannot start an expression, and a unit literal comes only from a (
\* immediately followed by ).
C13_ParenthesesBalance ==
    input \in ParenInputs /\ phase # "ready" =>
        /\ Opens(input, Len(input)) > 0 => phase = "parse_error"
        /\ phase = "parsed" /\ HasUnit(parsed.node) =>
              \E i \in 1 .. Len(input) - 1 :
                  input[i] = "(" /\ input[i + 1] = ")"

\* C14: an array literal evaluates its elements left to right, each one
\* completely (with the closure and builtin calls it makes) before the next
\* starts, and gives the element values in source order, as many as there are
\* element expressions.  With the counting seq(): [] is [], [seq(). seq().
\* seq()] is [1, 2, 3], [(@x seq()) 1. seq()] and [floor seq(). seq()] are
\* [1, 2], [map [1. 2], (@x seq()). seq()] is [[1, 2], 3] and
\* [map [1. 2], floor. 3] is [[1, 2], 3]; while an element is being evaluated
\* the elements before it are all there.
C14_ArrayLeftToRight ==
    /\ input \in ArrayPrograms =>
          /\ ~Failed
          /\ phase = "returned" =>
                /\ finalResult.t = "array"
                /\ Len(finalResult.v) = Len(parsed.node.elements)
          /\ \A i \in 1 .. Len(continuations) :
                continuations[i].kind = "arrayElem" =>
                    Len(continuations[i].evaluatedElements) =
                        continuations[i].elemIndex
    /\ input = <<"[", "]">> /\ phase = "returned" =>
          SameValue(finalResult, ArrayV(<<>>))
    /\ input = <<"[">> \o SeqCall \o <<"]">> /\ phase = "returned" =>
          SameValue(finalResult, NumberArray(<<1>>))
    /\ input = <<"[">> \o SeqCall \o <<".">> \o SeqCall \o <<".">> \o SeqCall
                \o <<"]">> /\ phase = "returned" =>
          SameValue(finalResult, NumberArray(<<1, 2, 3>>))
    /\ input \in {<<"[", "(", "@", "x">> \o SeqCall \o <<")", "1", ".">> \o
                      SeqCall \o <<"]">>,
                  <<"[", "floor">> \o SeqCall \o <<".">> \o SeqCall \o <<"]">>}
       /\ phase = "returned" =>
          SameValue(finalResult, NumberArray(<<1, 2>>))
    /\ input = <<"[", "map", "[", "1", ".", "2", "]", ",", "(", "@", "x">> \o
                   SeqCall \o <<")", ".">> \o SeqCall \o <<"]">>
       /\ phase = "returned" =>
          SameValue(finalResult, ArrayV(<<NumberArray(<<1, 2>>), NumberV(3)>>))
    /\ input = <<"[", "map", "[", "1", ".", "2", "]", ",", "floor", ".", "3",
                 "]">>
       /\ phase = "returned" =>
          SameValue(finalResult, ArrayV(<<NumberArray(<<1, 2>>), NumberV(3)>>))

\* C15: in an Apply the callee is evaluated completely before the argument is
\* started, and a Function callee gets the argument evaluated exactly once
\* and is then invoked with that value.  With the counting seq(): seq(), seq()
\* is [2] (callee 1, argument 2); (@x [x. seq()]) seq() is [1, 2];
\* (@f f ()) seq is 1; and floor (map [1. 2], floor), whose argument is the
\* array [1, 2], invokes floor with that array, which floor rejects.
C15_CalleeThenArgumentOnce ==
    /\ input = SeqCall \o <<",">> \o SeqCall =>
          /\ ~Failed
          /\ phase = "returned" =>
                SameValue(finalResult, NumberArray(<<2>>)) /\ seqI = 3
    /\ input = <<"(", "@", "x", "[", "x", ".">> \o SeqCall \o <<"]", ")">> \o
                   SeqCall =>
          /\ ~Failed
          /\ phase = "returned" =>
                SameValue(finalResult, NumberArray(<<1, 2>>)) /\ seqI = 3
    /\ input = <<"(", "@", "f", "f", "(", ")", ")", "seq">> =>
          /\ ~Failed
          /\ phase = "returned" =>
                SameValue(finalResult, NumberV(1)) /\ seqI = 2
    /\ input = <<"floor", "(", "map", "[", "1", ".", "2", "]", ",", "floor",
                 ")">> =>
          /\ phase # "returned"
          /\ phase = "thrown" => thrown = "Expected number, got [1. 2]"

\* C16: If evaluates its condition once and then exactly one branch: the true
\* branch when the condition is a number greater than 0, the false branch when
\* it is any other number; a condition that is not a number throws
\* 'Expected number' and no branch is evaluated.  With
\* if c then seq() else [seq()] the result is 1 or [1] and seq() ran once.
C16_IfOneBranch ==
    /\ \A c \in DOMAIN NumberConditions :
          input = IfProgram(c) =>
             /\ ~Failed
             /\ seqI <= 2
             /\ phase = "returned" =>
                   /\ seqI = 2
                   /\ SameValue(finalResult,
                                IF NumberConditions[c] > 0 THEN NumberV(1)
                                ELSE NumberArray(<<1>>))
    /\ input = IfProgram(SeqCall \o <<"-", "1">>) =>
          /\ ~Failed
          /\ phase = "returned" =>
                seqI = 3 /\ SameValue(finalResult, NumberArray(<<2>>))
    /\ \A c \in OtherConditions :
          input = IfProgram(c) =>
             /\ phase # "returned"
             /\ seqI = 1
             /\ phase = "thrown" =>
                   thrown \in {"Expected number, got \"a\"",
                               "Expected number, got [1]",
                               "Expected number, got ()",
                               "Expected number, got [function]"}
C16_Witness ==
    /\ input = IfProgram(<<"\"a\"">>)
    /\ phase = "thrown"
    /\ thrown = "Expected number, got \"a\""
    /\ seqI = 1

\* C16 as stated: every condition value that is not a number greater than 0,
\* numbers or not, selects the false branch.
C16_EverythingElseFalsy ==
    \A c \in DOMAIN NumberConditions \cup OtherConditions :
       input = IfProgram(c) =>
          /\ ~Failed
          /\ phase = "returned" =>
                /\ seqI = 2
                /\ SameValue(finalResult,
                             IF c \in DOMAIN NumberConditions /\
                                NumberConditions[c] > 0
                             THEN NumberV(1) ELSE NumberArray(<<1>>))

\* C17: applying an array arr evaluates the argument once; the argument must be
\* a number, is rounded to the nearest integer i, and the result is arr[i]
\* when 0 <= i < len(arr); for every other number evaluate throws an
\* out-of-bounds error and returns no value.  On [5. 6]: index 0 is 5,
\* index 1 is 6, [5. 6] seq() is 6 with seq called once, every other number
\* (NaN, which 0 % 0 is, included) throws, and so does a non-number.
C17_ArrayIndex ==
    /\ \A i \in DOMAIN NumberIndices :
          input = IndexProgram(i) =>
             IF NumberIndices[i] \in {0, 1}
             THEN /\ ~Failed
                  /\ phase = "returned" =>
                        SameValue(finalResult, NumberV(5 + NumberIndices[i]))
             ELSE /\ phase # "returned"
                  /\ phase = "thrown" =>
                        thrown = "Array index " \o ToString(NumberIndices[i]) \o
                                     " out of bounds"
    /\ input = IndexProgram(SeqCall) =>
          /\ ~Failed
          /\ phase = "returned" =>
                SameValue(finalResult, NumberV(6)) /\ seqI = 2
    /\ input = <<"[", "]", "0">> => phase # "returned"
    /\ \A i \in OtherIndices :
          input = IndexProgram(i) => phase # "returned"
    /\ input = IndexProgram(NaNIndex) => phase # "returned"

\* C18: an unbound name raises 'Undefined variable' only when its Variable
\* node is evaluated.  A program whose only unbound reference is in an
\* if-branch that is not taken, in the body of a function that is never
\* called, or in the argument of a numeric apply with n <= 0 returns its
\* value; one that evaluates the reference throws, and the error is raised
\* at that Variable node.
C18_UnboundLazily ==
    /\ \A prog \in DOMAIN LazyPrograms :
          input = prog =>
             /\ ~Failed
             /\ phase = "returned" => SameValue(finalResult, LazyPrograms[prog])
    /\ input \in UnboundPrograms =>
          /\ phase # "returned"
          /\ phase = "thrown" =>
                /\ thrown = "Undefined variable: q"
                /\ currentExpr.type = "variable"
                /\ currentExpr.value = "q"
C18_Witness ==
    /\ input = <<"let", "f", "@", "x", "q", "in", "1">>
    /\ phase = "returned"
    /\ SameValue(finalResult, NumberV(1))

\* C19: a function literal bound by let can call itself, and function literals
\* of one let block can call each other: at call time every name of the block
\* resolves to its bound value.  tri n is n (n + 1) / 2 (6 for n = 3), and the
\* isEven / isOdd pair gives [1, 0, 0] for [isEven 4. isOdd 6. isEven 5].
C19_LetRecursion ==
    /\ \A n \in 1 .. MaxOperand :
          input = TriProgram(n) =>
             /\ ~Failed
             /\ phase = "returned" =>
                   SameValue(finalResult, NumberV((n * (n + 1)) \div 2))
    /\ input = EvenOddProgram =>
          /\ ~Failed
          /\ phase = "returned" =>
                SameValue(finalResult, NumberArray(<<1, 0, 0>>))
C19_Witness ==
    /\ input = EvenOddProgram
    /\ phase = "returned"
    /\ SameValue(finalResult, NumberArray(<<1, 0, 0>>))

\* C20: reroll rollFn condFn makes at most MAX_REROLLS = 100 attempts, each a
\* call of rollFn followed by one call of condFn on its result, and stops at
\* the first accepted roll; if no roll is accepted it returns the last roll
\* and raises no error.  seq() counts the rolls of reroll (@_ seq()), ... and
\* the condition calls of reroll (@_ 5), (@x seq() * 0).
C20_RerollAttempts ==
    /\ \A limit \in 0 .. MaxOperand :
          input = RerollUntil(limit) =>
             /\ ~Failed
             /\ seqI - 1 <= limit + 1
             /\ phase = "returned" =>
                   SameValue(finalResult, NumberV(limit + 1)) /\ seqI = limit + 2
    /\ input = RerollNever =>
          /\ ~Failed
          /\ seqI - 1 <= MAX_REROLLS
          /\ phase = "returned" => SameValue(finalResult, NumberV(seqI - 1))
    /\ input = RerollCountCond =>
          /\ ~Failed
          /\ seqI - 1 <= MAX_REROLLS
          /\ phase = "returned" => SameValue(finalResult, NumberV(5))

\* The number of rolls among 1 .. k that end their chain.
FalsyRolls(c, k) == Cardinality({roll \in 1 .. k : ~Explodes(c, roll)})

\* C21: explode numRolls rollFn condFn, numRolls >= 0, returns as soon as
\* exactly numRolls rolls with a falsy condition have been made, and the
\* result lists every roll made, in order.  With the rolls 1, 2, 3, ... of
\* seq(): never more than numRolls falsy rolls are made, the result is
\* [1 .. k] with exactly numRolls falsy rolls among them, the last one falsy;
\* with an always falsy condition these are the numRolls rolls [1 .. numRolls],
\* the empty array for numRolls = 0, without any roll.
C21_ExplodeRolls ==
    \A n \in 0 .. MaxCount, c \in DOMAIN ExplodeConditions :
       input = ExplodeProgram(n, c) =>
          /\ ~Failed
          /\ FalsyRolls(c, seqI - 1) <= n
          /\ phase = "returned" =>
                /\ SameValue(finalResult, NumberArray(FromTo(1, seqI - 1)))
                /\ FalsyRolls(c, seqI - 1) = n
                /\ seqI > 1 => ~Explodes(c, seqI - 1)
                /\ c = "never" => seqI - 1 = n

\* The number of occurrences of v among the first k elements of ns.
Occurrences(ns, k, v) == Cardinality({i \in 1 .. k : ns[i] = v})

RECURSIVE KeptFrom(_, _, _)
\* rolls from the i-th on, without the earliest occurrences of each value, as
\* many as selection has of it.
KeptFrom(rolls, selection, i) ==
    IF i > Len(rolls) THEN <<>>
    ELSE (IF Occurrences(rolls, i, rolls[i]) >
                Occurrences(selection, Len(selection), rolls[i])
          THEN <<rolls[i]>> ELSE <<>>) \o KeptFrom(rolls, selection, i + 1)

\* C22: drop selectorFn rolls calls selectorFn once with rolls and removes,
\* for every value v, min(count of v in the selector's result, count of v in
\* rolls) occurrences, the earliest first; the other elements keep their
\* order and selected values that rolls does not hold have no effect.  This
\* for a selector that returns a fixed array, one that returns its argument
\* (everything is dropped), one that counts its calls, and the partially
\* applied builtin lowest 1, which selects [1] of [3. 1. 2].
C22_DropSelected ==
    /\ \A selection \in DropSelections, rolls \in DropRolls :
          input = DropProgram(selection, rolls) =>
             /\ ~Failed
             /\ phase = "returned" =>
                   SameValue(finalResult,
                             NumberArray(KeptFrom(rolls, selection, 1)))
    /\ \A rolls \in DropRolls :
          /\ input = DropAllProgram(rolls) =>
                /\ ~Failed
                /\ phase = "returned" => SameValue(finalResult, ArrayV(<<>>))
          /\ input = DropCountingProgram(rolls) =>
                /\ ~Failed
                /\ seqI <= 2
                /\ phase = "returned" =>
                      /\ seqI = 2
                      /\ SameValue(finalResult,
                                   NumberArray(KeptFrom(rolls, <<1>>, 1)))
    /\ input = DropLowestProgram =>
          /\ ~Failed
          /\ phase = "returned" =>
                SameValue(finalResult, NumberArray(<<3, 2>>))

RECURSIVE Largest(_, _)
\* The k largest of ns (all of them when k >= Len(ns)), largest first.
Largest(ns, k) ==
    IF k = 0 \/ Len(ns) = 0 THEN <<>>
    ELSE LET top == CHOOSE i \in 1 .. Len(ns) :
                        \A j \in 1 .. Len(ns) : ns[i] >= ns[j]
         IN <<ns[top]>> \o
            Largest(SubSeq(ns, 1, top - 1) \o SubSeq(ns, top + 1, Len(ns)), k - 1)

Negated(ns) == [i \in 1 .. Len(ns) |-> 0 - ns[i]]

\* Whether the value is an array of numbers holding the same numbers as ns,
\* as often, in any order.
SameMembers(value, ns) ==
    /\ value.t = "array"
    /\ Len(value.v) = Len(ns)
    /\ \A i \in 1 .. Len(value.v) : value.v[i].t = "number"
    /\ \A i \in 1 .. Len(ns) :
          Cardinality({j \in 1 .. Len(value.v) : value.v[j].v = ns[i]}) =
             Occurrences(ns, Len(ns), ns[i])

\* C23: highest n rolls is exactly the n largest elements of rolls as a
\* multiset and lowest n rolls the n smallest, for every integer n >= 0; all
\* of rolls when n >= len(rolls), empty when n = 0.
C23_HighestLowest ==
    \A n \in 0 .. MaxCount + 1, items \in SelectItems :
       /\ input = SelectProgram("highest", n, items) =>
             /\ ~Failed
             /\ phase = "returned" => SameMembers(finalResult, Largest(items, n))
       /\ input = SelectProgram("lowest", n, items) =>
             /\ ~Failed
             /\ phase = "returned" =>
                   SameMembers(finalResult,
                               Negated(Largest(Negated(items), n)))

\* C24: + is defined exactly on number + number (the sum), string + string
\* (the concatenation), array + array (the concatenation), array + non-array
\* (the value appended) and non-array + array (the value prepended); every
\* other combination raises a type error.
C24_PlusShapes ==
    \A lhs \in DOMAIN PlusOperands, rhs \in DOMAIN PlusOperands :
       input = PlusProgram(lhs, rhs) =>
          LET holds(l, r) ==
                 IF l.t = "array" /\ r.t = "array"
                 THEN ~Failed /\ (phase = "returned" =>
                                     SameValue(finalResult, ArrayV(l.v \o r.v)))
                 ELSE IF l.t = "array"
                 THEN ~Failed /\ (phase = "returned" =>
                                     SameValue(finalResult, ArrayV(Append(l.v, r))))
                 ELSE IF r.t = "array"
                 THEN ~Failed /\ (phase = "returned" =>
                                     SameValue(finalResult, ArrayV(<<l>> \o r.v)))
                 ELSE IF l.t = "number" /\ r.t = "number"
                 THEN ~Failed /\ (phase = "returned" =>
                                     SameValue(finalResult, NumberV(l.v + r.v)))
                 ELSE IF l.t = "string" /\ r.t = "string"
                 THEN ~Failed /\ (phase = "returned" =>
                                     SameValue(finalResult, StringV(l.v \o r.v)))
                 ELSE /\ phase # "returned"
                      /\ phase = "thrown" =>
                            thrown = "Expected number, string, or array"
          IN holds(PlusOperands[lhs], PlusOperands[rhs])
C24_Witness ==
    /\ input = PlusProgram(<<"[", "1", ".", "2", "]">>, <<"\"a\"">>)
    /\ phase = "returned"
    /\ SameValue(finalResult, ArrayV(<<NumberV(1), NumberV(2), StringV("a")>>))

RECURSIVE DeepEqual(_, _)
\* The same number, the same string, both null, or arrays of equal length
\* whose elements are pairwise equal.
DeepEqual(a, b) ==
    /\ a.t = b.t
    /\ CASE a.t \in {"number", "string"} -> a.v = b.v
         [] a.t = "null" -> TRUE
         [] a.t = "array" ->
               /\ Len(a.v) = Len(b.v)
               /\ \A i \in 1 .. Len(a.v) : DeepEqual(a.v[i], b.v[i])
         [] OTHER -> FALSE

\* C25: = and != are structural deep (in)equality on all values: a = b is 1
\* exactly when a and b are the same number, the same string, both null or
\* arrays of equal length with pairwise equal elements, and 0 otherwise;
\* a != b is defined for the same operands and is 1 - (a = b).
C25_DeepEquality ==
    \A lhs \in DOMAIN PlusOperands, rhs \in DOMAIN PlusOperands :
       LET same == BoolToNumber(DeepEqual(PlusOperands[lhs], PlusOperands[rhs]))
       IN
       /\ input = EqualsProgram(lhs, "=", rhs) =>
             /\ ~Failed
             /\ phase = "returned" => SameValue(finalResult, NumberV(same))
       /\ input = EqualsProgram(lhs, "!=", rhs) =>
             /\ ~Failed
             /\ phase = "returned" => SameValue(finalResult, NumberV(1 - same))

RECURSIVE LeftFold(_, _)
\* ((e1 + e2) + e3) + ... + ek for k >= 1, + being addValues: [thrown, value].
LeftFold(elements, k) ==
    LET plus(prev) ==
           IF prev.thrown # "" THEN prev
           ELSE addValues(prev.value, PlusOperands[elements[k]])
    IN IF k = 1 THEN [thrown |-> "", value |-> PlusOperands[elements[1]]]
       ELSE plus(LeftFold(elements, k - 1))

\* C26: ... applied to an array returns the left fold of + over its elements
\* in order, ((e1 + e2) + e3) + ...; null for the empty array; a type error
\* when + rejects a combination.
C26_SpreadLeftFold ==
    \A elements \in SpreadLists :
       input = SpreadProgram(elements) =>
          LET holds(fold) ==
                 IF fold.thrown # ""
                 THEN phase # "returned" /\ (phase = "thrown" => thrown = fold.thrown)
                 ELSE ~Failed /\ (phase = "returned" =>
                                     SameValue(finalResult, fold.value))
          IN IF Len(elements) = 0
             THEN ~Failed /\ (phase = "returned" => finalResult.t = "null")
             ELSE holds(LeftFold(elements, Len(elements)))
C26_Witness ==
    /\ input = SpreadProgram(<<<<"1">>, <<"1">>, <<"[", "1", ".", "2", "]">>>>)
    /\ phase = "returned"
    /\ SameValue(finalResult, NumberArray(<<2, 1, 2>>))

(***************************************************************************)
(* C27: how evaluate stops                                                 *)
(***************************************************************************)

\* A Value of the language: number, string, array, function or null.
IsValue(value) == typeof(value) \in {"number", "string", "object", "function"}

\* C27: whenever evaluate returns, whatever the runtime type of an apply's
\* callee, the value it returns is a Value that was delivered to the final
\* continuation, and no continuation is still pending.
C27_StopsWithResult ==
    phase = "returned" =>
        /\ finalCalls >= 1
        /\ finalResult.t # "undefined"
        /\ IsValue(finalResult)
        /\ Len(continuations) = 0

(***************************************************************************)
(* C28: failures abort evaluate                                            *)
(***************************************************************************)

\* node is tree or one of the expressions below it.
RECURSIVE IsNodeOf(_, _)
IsNodeOf(node, tree) ==
    \/ node = tree
    \/ CASE tree.type = "array" ->
               \E i \in 1 .. Len(tree.elements) : IsNodeOf(node, tree.elements[i])
         [] tree.type = "apply" ->
               IsNodeOf(node, tree.lhs) \/ IsNodeOf(node, tree.rhs)
         [] tree.type = "defun" -> IsNodeOf(node, tree.body)
         [] tree.type = "let" ->
               \/ \E i \in 1 .. Len(tree.variables) :
                      IsNodeOf(node, tree.variables[i].value)
               \/ IsNodeOf(node, tree.body)
         [] tree.type = "if" ->
               \/ IsNodeOf(node, tree.condition)
               \/ IsNodeOf(node, tree.trueBranch)
               \/ IsNodeOf(node, tree.falseBranch)
         [] OTHER -> FALSE

\* C28: an error raised during evaluation (by a type guard, an unbound name
\* or an index out of bounds) ends the evaluate call at once: the call throws
\* an EvaluationError with that error's message and a node of the evaluated
\* tree, and afterwards no work item is processed and nothing is returned.
C28_FailureAborts ==
    /\ [](/\ thrown # "" <=> phase = "thrown"
          /\ phase = "thrown" =>
                /\ parsed.st = "ok"
                /\ IsNodeOf(currentExpr, parsed.node)
          /\ \A prog \in DOMAIN FailurePrograms :
                input = prog =>
                    /\ phase # "returned"
                    /\ phase = "thrown" => thrown = FailurePrograms[prog])
    /\ [][phase = "thrown" => UNCHANGED vars]_vars
C28_Witness ==
    /\ input = <<"[">> \o SeqCall \o <<".", "q", ".">> \o SeqCall \o <<"]">>
    /\ phase = "thrown"
    /\ thrown = "Undefined variable: q"
    /\ currentExpr.type = "variable"
    /\ seqI = 2
    /\ Len(continuations) > 0

(***************************************************************************)
(* C29: evaluate calls are independent                                     *)
(***************************************************************************)

\* C29: a second evaluate call on the same tree, without seq, d or dF, ends as
\* the first did, with a structurally equal result or the same error; and no
\* step of a call changes the tree or the shared empty environment.
C29_Independent ==
    /\ [](run = 2 =>
            /\ phase = "returned" =>
                  /\ first.phase = "returned"
                  /\ first.finalResult.t = finalResult.t
                  /\ SameValue(first.finalResult, finalResult)
            /\ phase = "thrown" =>
                  /\ first.phase = "thrown"
                  /\ first.thrown = thrown)
    /\ [][parsed' = parsed /\ emptyEnv' = emptyEnv]_vars
C29_Witness ==
    /\ input = ShadowProgram
    /\ run = 2
    /\ phase = "returned"
    /\ first.phase = "returned"
    /\ SameValue(finalResult, NumberArray(<<5, 1>>))
C29_WitnessError ==
    /\ input = <<"floor", "\"a\"">>
    /\ run = 2
    /\ phase = "thrown"
    /\ first.thrown = "Expected number, got \"a\""

(***************************************************************************)
(* C30: builtins leave their arrays alone                                  *)
(***************************************************************************)

\* C30: no builtin changes an array it is given.  No step changes the value
\* of a name that is bound, so an array reachable from a let-bound name keeps
\* its elements and their order through every call; and when the array a is
\* passed to sort, highest, lowest, drop, map, reduce, + or ..., the value of
\* a read after the call is the array the let bound.
C30_ArraysUnchanged ==
    /\ [](\A ns \in FrameArrays, builtinCall \in FrameCalls :
             input = FrameProgram(ns, builtinCall) =>
                 /\ ~Failed
                 /\ phase = "returned" =>
                       /\ finalResult.t = "array"
                       /\ Len(finalResult.v) = 2
                       /\ SameValue(finalResult.v[2], NumberArray(ns)))
    /\ [][\A e \in DOMAIN envs :
              \A n \in DOMAIN envs[e].variables :
                  /\ n \in DOMAIN envs'[e].variables
                  /\ SameValue(envs'[e].variables[n], envs[e].variables[n])]_vars
C30_Witness ==
    /\ input = FrameProgram(<<3, 1, 2>>, <<"sort", "a">>)
    /\ phase = "returned"
    /\ SameValue(finalResult,
                 ArrayV(<<NumberArray(<<1, 2, 3>>), NumberArray(<<3, 1, 2>>)>>))
C30_WitnessReduce ==
    /\ input = FrameProgram(<<3, 1, 2>>,
                            <<"reduce", "a", ",", "(", "@", "p", "@", "x", "p",
                              "+", "x", ")", ",", "0">>)
    /\ phase = "returned"
    /\ SameValue(finalResult, ArrayV(<<NumberV(6), NumberArray(<<3, 1, 2>>)>>))

(***************************************************************************)
(* C31: a binary operator is an application of its builtin                 *)
(***************************************************************************)

\* node is Apply(Apply(Variable(name), a), b).
IsOperatorApply(node, name) ==
    /\ node.type = "apply"
    /\ node.lhs.type = "apply"
    /\ node.lhs.lhs.type = "variable"
    /\ node.lhs.lhs.value = name

\* How the builtin name ends when called with the values a and then b.
OperatorOutcome(name, a, b) ==
    LET guards == builtins[name].guards
        body(r) == IF r.thrown # "" THEN [thrown |-> r.thrown, value |-> Undefined]
                   ELSE [thrown |-> "", value |-> r.value]
    IN IF Guard(guards[1], a) # ""
       THEN [thrown |-> Guard(guards[1], a), value |-> Undefined]
       ELSE IF Guard(guards[2], b) # ""
       THEN [thrown |-> Guard(guards[2], b), value |-> Undefined]
       ELSE body(StrictBuiltin(name, <<a, b>>, 1))

\* C31: a op b is parsed into Apply(Apply(Variable(op), a), b); its left
\* operand is evaluated completely before its right operand (seq() - seq() is
\* -1), and it evaluates to what the builtin bound to op gives for the values
\* of the two operands.
C31_OperatorIsApplication ==
    /\ \A a \in DOMAIN OperatorOperands, b \in DOMAIN OperatorOperands :
          \A op \in EvaluatedOps :
              LET name == infixToBuiltin[staticTokenToType[op]]
                  agrees(outcome) ==
                      IF outcome.thrown # ""
                      THEN /\ phase # "returned"
                           /\ phase = "thrown" => thrown = outcome.thrown
                      ELSE /\ phase # "thrown"
                           /\ phase = "returned" =>
                                 /\ finalResult.t = outcome.value.t
                                 /\ SameValue(finalResult, outcome.value)
              IN input = OperatorProgram(a, op, b) =>
                     /\ parsed.st = "ok"
                     /\ IsOperatorApply(parsed.node, name)
                     /\ agrees(OperatorOutcome(name, OperatorOperands[a],
                                               OperatorOperands[b]))
    /\ input = OperatorProgram(SeqCall, "-", SeqCall) =>
          /\ parsed.st = "ok"
          /\ IsOperatorApply(parsed.node, "-")
          /\ phase = "returned" => SameValue(finalResult, NumberV(-1))

(***************************************************************************)
(* C32: unary prefix operators                                             *)
(***************************************************************************)

\* node is Apply(Variable(builtin of the prefix operator u), Variable(name)).
IsPrefixApply(node, u, name) ==
    /\ node.type = "apply"
    /\ node.lhs.type = "variable"
    /\ node.lhs.value = prefixToBuiltin[staticTokenToType[u]]
    /\ node.rhs.type = "variable"
    /\ node.rhs.value = name

\* C32: a prefix operator binds tighter than whatever follows its operand:
\* -a op b and !a op b are (-a) op b and (!a) op b for every binary operator
\* op, -f x is (-f) x, and + is a prefix operator as - and ! are.
C32_PrefixBindsTightest ==
    /\ \A u \in PrefixOps :
          /\ \A op \in InfixOps :
                input = <<u, "a", op, "b">> /\ phase # "ready" =>
                    /\ phase = "parsed"
                    /\ IsOperatorApply(parsed.node,
                                       infixToBuiltin[staticTokenToType[op]])
                    /\ IsPrefixApply(parsed.node.lhs.rhs, u, "a")
                    /\ parsed.node.rhs.type = "variable"
                    /\ parsed.node.rhs.value = "b"
          /\ input = <<u, "f", "x">> /\ phase # "ready" =>
                /\ phase = "parsed"
                /\ parsed.node.type = "apply"
                /\ IsPrefixApply(parsed.node.lhs, u, "f")
                /\ parsed.node.rhs.type = "variable"
                /\ parsed.node.rhs.value = "x"
    /\ input = <<"+", "a">> /\ phase # "ready" =>
          /\ phase = "parsed"
          /\ parsed.node.type = "apply"
          /\ parsed.node.lhs.type = "variable"
          /\ parsed.node.rhs.type = "variable"
          /\ parsed.node.rhs.value = "a"

(***************************************************************************)
(* C33: printValue                                                         *)
(***************************************************************************)

RECURSIVE Rendering(_)
RECURSIVE RenderingFrom(_, _)
\* The renderings of the elements from the i-th on, joined by ". ".
RenderingFrom(elements, i) ==
    IF i > Len(elements) THEN ""
    ELSE Rendering(elements[i]) \o
         (IF i < Len(elements) THEN ". " \o RenderingFrom(elements, i + 1)
          ELSE "")
\* The canonical text of a value: each element of an array rendered as the
\* value it is.
Rendering(value) ==
    CASE value.t = "number" -> ToString(value.v)
      [] value.t = "string" -> "\"" \o value.v \o "\""
      [] value.t = "null" -> "()"
      [] value.t = "function" -> "[function]"
      [] value.t = "array" -> "[" \o RenderingFrom(value.v, 1) \o "]"

\* C33: printValue renders a number in decimal, a string quoted, null as (),
\* a function as a placeholder, and an array as [ e1. e2. ... ] where each
\* element is rendered by printValue too, whatever the element is.  The text
\* is observed in the message of the error floor raises for the value.
C33_PrintValueRecursive ==
    \A operand \in DOMAIN PrintOperands :
        input = PrintProgram(operand) =>
            /\ phase # "returned"
            /\ phase = "thrown" =>
                  thrown = "Expected number, got " \o
                               Rendering(PrintOperands[operand])

(***************************************************************************)
(* C34: reroll stops at the first accepted roll                            *)
(***************************************************************************)

\* C34: reroll rollFn condFn returns the first roll that condFn accepts:
\* rollFn is called once per attempt, condFn once on each roll, and neither is
\* called after the first accepted roll.  With the rolls 1, 2, 3, ... and the
\* condition x > limit the result is limit + 1 after limit + 1 rolls, whether
\* rollFn is a closure around seq() or seq itself; when seq() also counts the
\* condition calls, roll and condition calls alternate.
C34_RerollFirstAccepted ==
    /\ \A limit \in 0 .. MaxOperand :
          input \in {RerollUntil(limit), RerollBuiltin(limit)} =>
             /\ ~Failed
             /\ seqI - 1 <= limit + 1
             /\ phase = "returned" =>
                   /\ finalResult.t = "number"
                   /\ finalResult.v = limit + 1
                   /\ seqI - 1 = limit + 1
    /\ input = RerollInterleaved =>
          /\ ~Failed
          /\ seqI - 1 <= 6
          /\ phase = "returned" =>
                /\ finalResult.t = "number"
                /\ finalResult.v = 5
                /\ seqI - 1 = 6

(***************************************************************************)
(* C35: reduce is the left fold                                            *)
(***************************************************************************)

RECURSIVE FoldDoubling(_, _, _)
\* The left fold of (acc * 2) + x over ns[i ..], starting from acc.
FoldDoubling(ns, acc, i) ==
    IF i > Len(ns) THEN acc ELSE FoldDoubling(ns, acc * 2 + ns[i], i + 1)

RECURSIVE FoldCounting(_, _, _)
\* The left fold of acc + (number of the call) over ns[i ..].
FoldCounting(ns, acc, i) ==
    IF i > Len(ns) THEN acc ELSE FoldCounting(ns, acc + i, i + 1)

\* C35: reduce arr f init is the left fold of the curried f over arr from
\* init: elements are consumed in index order, f is called once per element,
\* the empty array gives init with f never called, and when f acc is not a
\* function (f is @p 5, or the builtin floor) a type error is raised.
C35_ReduceLeftFold ==
    \A ns \in ReduceArrays, init \in ReduceInits :
        /\ input = ReduceProgram(ns, ReduceDoubling, init) =>
              /\ ~Failed
              /\ phase = "returned" =>
                    /\ finalResult.t = "number"
                    /\ finalResult.v = FoldDoubling(ns, init, 1)
        /\ input = ReduceProgram(ns, ReduceCounting, init) =>
              /\ ~Failed
              /\ seqI - 1 <= Len(ns)
              /\ phase = "returned" =>
                    /\ finalResult.t = "number"
                    /\ finalResult.v = FoldCounting(ns, init, 1)
                    /\ seqI - 1 = Len(ns)
        /\ \A reducer \in {ReduceNotCurried, <<"floor">>} :
              input = ReduceProgram(ns, reducer, init) =>
                 /\ phase # "parse_error"
                 /\ phase = "returned" =>
                       /\ ns = <<>>
                       /\ finalResult.t = "number"
                       /\ finalResult.v = init
                 /\ phase = "thrown" =>
                       /\ ns # <<>>
                       /\ thrown = "Expected function, got " \o
                             (IF reducer = ReduceNotCurried THEN "5"
                              ELSE ToString(init))

(***************************************************************************)
(* C36: % is floored modulo                                                *)
(***************************************************************************)

\* C36: for integers a and b the result r of a % b satisfies, when b > 0,
\* 0 <= r < b with a - r a multiple of b, and when b < 0, b < r <= 0.
C36_FlooredModulo ==
    remainder # NoNumber =>
        IF IsNegative(operands[2])
        THEN /\ Less(operands[2], remainder)
             /\ ~Less(ToDouble(0), remainder)
        ELSE /\ ~IsNegative(remainder)
             /\ Less(remainder, operands[2])
             /\ IsZero(RemainderOfMagnitudes(
                           Magnitude(Difference(operands[1], remainder)),
                           operands[2]))

(***************************************************************************)
(* C37: the editor and its worker                                          *)
(***************************************************************************)

\* The worker has answered every message the page posted, and the page has
\* handled every answer.
Quiescent ==
    /\ posted > 0
    /\ workerQueue = <<>>
    /\ phase = "ready"
    /\ mainQueue = <<>>

\* C37: the worker answers every posted program with exactly one reply
\* {success, output} whose output is a string; and once the worker has
\* answered all posted messages, the output pane shows the output of the most
\* recently posted program text, never that of an earlier one.
C37_LatestOutput ==
    /\ \A i \in DOMAIN mainQueue :
          /\ mainQueue[i].success \in BOOLEAN
          /\ mainQueue[i].output.t = "string"
    /\ posted = answered + Len(workerQueue) +
                   (IF phase = "ready" THEN 0 ELSE 1)
    /\ Quiescent =>
          /\ answered = posted
          /\ doc \in DOMAIN EditorOutputs => outputDoc = EditorOutputs[doc]
          /\ \A text \in DOMAIN EditorOutputs :
                EditorOutputs[text] = outputDoc => text = doc

(***************************************************************************)
(* C38: spans                                                              *)
(***************************************************************************)

\* The expressions directly below node.
Children(node) ==
    CASE node.type = "array" -> node.elements
      [] node.type = "apply" -> <<node.lhs, node.rhs>>
      [] node.type = "defun" -> <<node.body>>
      [] node.type = "let" ->
            [i \in 1 .. Len(node.variables) |-> node.variables[i].value] \o
            <<node.body>>
      [] node.type = "if" ->
            <<node.condition, node.trueBranch, node.falseBranch>>
      [] OTHER -> <<>>

\* node is the Apply that a binary operator was parsed into: its callee is
\* the Apply of the operator's Variable, which ends where the operator ends.
IsBinaryApply(node) ==
    /\ node.type = "apply"
    /\ node.lhs.type = "apply"
    /\ node.lhs.lhs.type = "variable"
    /\ node.lhs.end = node.lhs.lhs.end

RECURSIVE SpansNest(_, _)
\* The span of node lies in the source of the given length and contains the
\* spans of its children, and so for every node below it; a binary operator's
\* Apply ends where its right operand ends.
SpansNest(node, length) ==
    /\ 0 <= node.start
    /\ node.start <= node.end
    /\ node.end <= length
    /\ IsBinaryApply(node) => node.end = node.rhs.end
    /\ \A i \in 1 .. Len(Children(node)) :
          /\ node.start <= Children(node)[i].start
          /\ Children(node)[i].end <= node.end
          /\ SpansNest(Children(node)[i], length)

\* C38: every node parse produces has a span with 0 <= start <= end <=
\* length of the source, a composite node's span contains the spans of its
\* children, and a binary operator's Apply ends where its right operand ends.
C38_SpansNest ==
    parsed.st = "ok" => SpansNest(parsed.node, SourceLength(input))

(***************************************************************************)
(* C39: operators and user bindings                                        *)
(***************************************************************************)

\* C39: -e is the arithmetic negation of e and a op b the builtin operator
\* applied to a and b in every scope, whatever a let binding or a function
\* parameter in scope is called, negate included.
C39_OperatorsIgnoreBindings ==
    input \in DOMAIN BindingPrograms =>
        /\ ~Failed
        /\ phase = "returned" =>
              /\ finalResult.t = "number"
              /\ finalResult.v = BindingPrograms[input]

====
